---- MODULE Spec2Model ----
(***************************************************************************)
(* Lead enrichment: website scraper, graded relevance oracle, enrichment   *)
(* pipeline and the windowed executors, modelled from the JavaScript       *)
(* sources (controllers/LeadEnrichmentController.js,                       *)
(* services/WebsiteScraperService.js, services/CompanyAnalysisService.js). *)
(*                                                                         *)
(* JavaScript values are records [t, n, s]: t is the type tag, n the       *)
(* numeric payload, s the string payload (a sequence of one-character      *)
(* strings).  Numbers are integer valued in this model.                    *)
(***************************************************************************)
EXTENDS Integers, Sequences, FiniteSets, TLC

VARIABLES
    pc,        \* "idle" before an operation is invoked, "done" after it returned
    op,        \* the operation that ran
    request,   \* its arguments (request body, service configuration)
    response,  \* what it returned: HTTP status and body, or the settled promise
    runs,      \* one record per run of the graded pipeline: the leads that entered it,
               \* enrichedLeads as they stood before the filter step, and its output
    fetchLog,  \* the GET requests issued, in order: [run, idx, url]
    oracleLog, \* the graded oracle calls issued, in order: [run, idx]
    win,       \* state of a windowed executor (scrapeMultiple / filterCompaniesByTopicParallel)
    cache,     \* table website_analysis_cache: its rows
    now,       \* CURRENT_TIMESTAMP of the database, in days
    pending,   \* the findByDomain calls between their SELECT and their UPDATE
    stmts,     \* count of the statements WebsiteAnalysisCache issued, and the last one
    history    \* per key: the operations completed on its entry since it was
               \* inserted, and the value of the last upsert

cacheVars == <<cache, now, pending, stmts, history>>

vars == <<pc, op, request, response, runs, fetchLog, oracleLog, win, cacheVars>>

-----------------------------------------------------------------------------
(* Bounds of the model                                                     *)

\* longest lead list whose leads and environment are enumerated in full
MaxLen == 2

\* number of batches of a /batch-enrich request
MaxBatches == 2

\* number of units of work (urls, companies) handed to a windowed executor
MaxUnits == 6

\* windows a windowed executor is followed through
MaxWindows == MaxUnits + 1

\* last day the database clock is followed to
MaxDay == 8

\* statements issued against website_analysis_cache
MaxCalls == 4

\* findByDomain calls that may stand between their SELECT and their UPDATE
MaxPending == 2

\* companies handed to analyzeCompanies when it is followed step by step
MaxCompanies == 3

\* posts handed to filterPostsByTopic
MaxPosts == 2

\* companies and posts of the calls that are followed for termination
MaxLiveUnits == 2

-----------------------------------------------------------------------------
(* Program constants                                                       *)

\* Math.min(leads.length, 50)
MaxLeadsToProcess == 50

\* min_relevance_score = 5
DefaultMinRelevanceScore == 5

\* scrapeMultiple(urls, 5) in enrichLeads
EnrichConcurrency == 5

\* scrapeMultiple(urls, 3) in enrichLeadsInternal
InternalConcurrency == 3

\* maxConcurrent = 10 in filterCompanies
DefaultMaxConcurrent == 10

\* findByDomain: INTERVAL '7 days'
FreshnessDays == 7

\* pruneOldEntries(daysOld = 7)
DefaultDaysOld == 7

-----------------------------------------------------------------------------
(* JavaScript values                                                       *)

Undefined == [t |-> "undefined", n |-> 0, s |-> <<>>]
Null == [t |-> "null", n |-> 0, s |-> <<>>]
NaN == [t |-> "NaN", n |-> 0, s |-> <<>>]
Num(k) == [t |-> "number", n |-> k, s |-> <<>>]
Str(cs) == [t |-> "string", n |-> 0, s |-> cs]
Bool(b) == [t |-> "boolean", n |-> IF b THEN 1 ELSE 0, s |-> <<>>]

\* ToBoolean: undefined, null, NaN, 0, false and "" are falsy
Truthy(v) ==
    CASE v.t = "undefined" -> FALSE
      [] v.t = "null" -> FALSE
      [] v.t = "NaN" -> FALSE
      [] v.t = "number" -> v.n # 0
      [] v.t = "boolean" -> v.n = 1
      [] v.t = "string" -> v.s # <<>>
      [] v.t = "text" -> v.n > 0
      [] OTHER -> TRUE

\* a || b
Or(a, b) == IF Truthy(a) THEN a ELSE b

\* String.prototype.startsWith on character sequences
StartsWith(cs, prefix) ==
    /\ Len(cs) >= Len(prefix)
    /\ SubSeq(cs, 1, Len(prefix)) = prefix

Digits == <<"0", "1", "2", "3", "4", "5", "6", "7", "8", "9">>

IsDigit(c) == \E d \in 1..Len(Digits) : Digits[d] = c

DigitVal(c) == (CHOOSE d \in 1..Len(Digits) : Digits[d] = c) - 1

RECURSIVE DigitPrefix(_, _, _)
\* value of the longest run of digits of cs starting at position i, acc so far
DigitPrefix(cs, i, acc) ==
    IF i <= Len(cs) /\ IsDigit(cs[i])
    THEN DigitPrefix(cs, i + 1, acc * 10 + DigitVal(cs[i]))
    ELSE acc

\* StringToNumber prefix parse shared by parseInt and parseFloat: optional sign,
\* then at least one digit; anything else is NaN
ParseNumericPrefix(cs) ==
    LET neg == cs # <<>> /\ cs[1] = "-"
        start == IF cs # <<>> /\ cs[1] \in {"-", "+"} THEN 2 ELSE 1
    IN  IF start <= Len(cs) /\ IsDigit(cs[start])
        THEN Num((IF neg THEN -1 ELSE 1) * DigitPrefix(cs, start, 0))
        ELSE NaN

\* parseFloat(v): v is converted to a string first, so only numbers and
\* strings with a numeric prefix give a number
ParseFloat(v) ==
    CASE v.t = "number" -> v
      [] v.t = "string" -> ParseNumericPrefix(v.s)
      [] OTHER -> NaN

\* parseInt(v): as parseFloat on the integer valued numbers of this model
ParseInt(v) ==
    CASE v.t = "number" -> v
      [] v.t = "string" -> ParseNumericPrefix(v.s)
      [] OTHER -> NaN

\* a >= b on numbers: false as soon as one side is NaN
GE(a, b) == a.t = "number" /\ b.t = "number" /\ a.n >= b.n

-----------------------------------------------------------------------------
(* Strings of the model                                                    *)

HTTP == <<"h", "t", "t", "p">>
HTTPColon == <<"h", "t", "t", "p", ":", "/", "/">>
HTTPSColon == <<"h", "t", "t", "p", "s", ":", "/", "/">>

\* hosts: bare domains
HostA == <<"a", ".", "i", "o">>
HostB == <<"b", ".", "i", "o">>

-----------------------------------------------------------------------------
(* WebsiteScraperService                                                   *)

\* .substring(0, 5000) of the body text
MaxBodyText == 5000

\* scrapedData.content.substring(0, 2000)
MaxAnalysisContent == 2000

\* parts.filter(p => p.length > 10)
MinPartLength == 10

\* async filterPostsByTopic(posts, topic, chunkSize = 20)
DefaultChunkSize == 20

Min(a, b) == IF a <= b THEN a ELSE b

\* the array seq with its elements evaluated
Array(seq) == SubSeq(seq, 1, Len(seq))

\* what the network does with one GET: a failure (network error, timeout,
\* oversize body, status >= 400) or a page, given by the lengths of the texts
\* cheerio extracts from it
NetFailure(why) == [ok |-> FALSE, why |-> why, title |-> 0, description |-> 0, headings |-> 0, body |-> 0]
NetFail == NetFailure("network error")
NetPage(ti, de, he, bo) == [ok |-> TRUE, why |-> "", title |-> ti, description |-> de, headings |-> he, body |-> bo]

\* a promise that settled
Fulfilled(v, g) == [status |-> "fulfilled", value |-> v, get |-> g]
Rejected(g) == [status |-> "rejected", value |-> Null, get |-> g]

\* scrapeWebsite(url) against the network outcome net; get tells whether
\* axios.get was issued.  The guard runs before the try block: a truthy url
\* that is no string has no startsWith method and the call throws a TypeError.
ScrapeWebsite(url, net) ==
    IF ~Truthy(url) THEN Fulfilled(Null, FALSE)
    ELSE IF url.t # "string" THEN Rejected(FALSE)
    ELSE IF ~StartsWith(url.s, HTTP) THEN Fulfilled(Null, FALSE)
    ELSE IF ~net.ok THEN Fulfilled(Null, TRUE)
    ELSE Fulfilled([t |-> "object", url |-> url, title |-> net.title,
                    description |-> net.description, headings |-> net.headings,
                    content |-> Min(net.body, MaxBodyText)], TRUE)

RECURSIVE ScrapeWindows(_, _, _)
\* the loop of scrapeMultiple from index i (0-based) on: outcomes[j] is the
\* settled promise of scrapeWebsite(urls[j]); a window is urls.slice(i, i + concurrency)
ScrapeWindows(outcomes, i, concurrency) ==
    IF i < Len(outcomes)
    THEN LET batchResults == SubSeq(outcomes, i + 1, Min(i + concurrency, Len(outcomes)))
             kept == SelectSeq(batchResults,
                               LAMBDA r : r.status = "fulfilled" /\ Truthy(r.value))
         IN  Array([j \in 1..Len(kept) |-> kept[j].value])
                 \o ScrapeWindows(outcomes, i + concurrency, concurrency)
    ELSE <<>>

\* scrapeMultiple(urls, concurrency): nets[j] is what the network does with urls[j]
ScrapeMultiple(urls, nets, concurrency) ==
    ScrapeWindows(Array([j \in 1..Len(urls) |-> ScrapeWebsite(urls[j], nets[j])]), 0, concurrency)

TitleLabel == <<"T", "i", "t", "l", "e", ":", " ">>
DescriptionLabel == <<"D", "e", "s", "c", "r", "i", "p", "t", "i", "o", "n", ":", " ">>
HeadingsLabel == <<"K", "e", "y", " ", "S", "e", "c", "t", "i", "o", "n", "s", ":", " ">>
ContentLabel == <<"C", "o", "n", "t", "e", "n", "t", ":", " ">>
PartSeparator == <<"\n", "\n">>

RECURSIVE SumLen(_)
SumLen(parts) == IF parts = <<>> THEN 0 ELSE Head(parts).len + SumLen(Tail(parts))

\* extractTextForAnalysis(scrapedData): the text is given by the labels of the
\* parts kept, its length n and the url of the page it was made from
ExtractTextForAnalysis(scraped) ==
    IF ~Truthy(scraped) THEN [t |-> "text", n |-> 0, parts |-> <<>>, url |-> Undefined]
    ELSE LET parts == << [label |-> "Title", len |-> Len(TitleLabel) + scraped.title],
                         [label |-> "Description", len |-> Len(DescriptionLabel) + scraped.description],
                         [label |-> "Key Sections", len |-> Len(HeadingsLabel) + scraped.headings],
                         [label |-> "Content", len |-> Len(ContentLabel) + Min(scraped.content, MaxAnalysisContent)] >>
             kept == SelectSeq(parts, LAMBDA p : p.len > MinPartLength)
         IN  [t |-> "text",
              n |-> SumLen(kept) + (IF kept = <<>> THEN 0 ELSE (Len(kept) - 1) * Len(PartSeparator)),
              parts |-> Array([j \in 1..Len(kept) |-> kept[j].label]),
              url |-> scraped.url]

\* no website content: null in a lead, '' where a string is expected
NoText == [t |-> "null", n |-> 0, parts |-> <<>>, url |-> Undefined]
EmptyText == [t |-> "text", n |-> 0, parts |-> <<>>, url |-> Undefined]

\* a websiteContent field that is absent, and one that is a number
NoContent == [t |-> "undefined", n |-> 0, parts |-> <<>>, url |-> Undefined]
NumberContent == [t |-> "number", n |-> 7, parts |-> <<>>, url |-> Undefined]

-----------------------------------------------------------------------------
(* CompanyAnalysisService: graded oracle                                   *)

\* a JSON document: an object with the fields the parser reads, null, or
\* another scalar (which has none of the fields)
JObject(r, c, sc, re) == [k |-> "object", isRelevant |-> r, confidence |-> c, score |-> sc, reasoning |-> re]
JNull == [k |-> "null", isRelevant |-> Undefined, confidence |-> Undefined, score |-> Undefined, reasoning |-> Undefined]
JScalar == [k |-> "scalar", isRelevant |-> Undefined, confidence |-> Undefined, score |-> Undefined, reasoning |-> Undefined]

\* what the oracle does with one call: the HTTP call fails (non-2xx status,
\* network error, unexpected body shape), or it returns a text, which is a JSON
\* document or something JSON.parse rejects (prose, fenced or truncated JSON)
OracleError == [kind |-> "error", syntax |-> "none", value |-> JNull]
OracleJson(doc) == [kind |-> "text", syntax |-> "json", value |-> doc]
OracleProse == [kind |-> "text", syntax |-> "prose", value |-> JNull]

\* the verdicts of "no signal"
Verdict(r, c, sc, re) == [isRelevant |-> r, confidence |-> c, score |-> sc, reasoning |-> re]
NotConfigured == Verdict(Null, Num(0), Num(0), "AI analysis not configured")
AnalysisFailed == Verdict(Null, Num(0), Num(0), "Analysis failed: error")
FailedToParse == Verdict(Null, Num(0), Num(0), "Failed to parse AI response")

\* JSON.parse(response): [ok, value]
JsonParse(text) == [ok |-> text.syntax = "json", value |-> text.value]

\* faulty variant of ParseAnalysisResponse: the catch block answers "not
\* relevant" in place of "unknown"
ParseAnalysisResponseNegative(text) ==
    LET parsed == [ok |-> text.syntax = "json", value |-> text.value]
    IN  IF ~parsed.ok \/ parsed.value.k = "null"
        THEN Verdict(Bool(FALSE), Num(0), Num(0), "Failed to parse AI response")
        ELSE Verdict(Bool(parsed.value.isRelevant = Bool(TRUE)),
                     Or(ParseInt(parsed.value.confidence), Num(0)),
                     Or(ParseFloat(parsed.value.score), Num(0)),
                     IF Truthy(parsed.value.reasoning) THEN "oracle reasoning" ELSE "")

\* parseAnalysisResponse(response): JSON.parse throwing, or reading a property
\* of null, lands in the catch block
ParseAnalysisResponse(text) ==
    LET parsed == JsonParse(text)
    IN  IF ~parsed.ok \/ parsed.value.k = "null" THEN FailedToParse
        ELSE Verdict(Bool(parsed.value.isRelevant = Bool(TRUE)),
                     Or(ParseInt(parsed.value.confidence), Num(0)),
                     Or(ParseFloat(parsed.value.score), Num(0)),
                     IF Truthy(parsed.value.reasoning) THEN "oracle reasoning" ELSE "")

\* callAI(prompt): [ok, text]; an unsupported provider throws, as does a failed call
CallAI(cfg, oracle) ==
    IF cfg.provider \notin {"openai", "anthropic"} THEN [ok |-> FALSE, text |-> OracleProse]
    ELSE IF oracle.kind = "error" THEN [ok |-> FALSE, text |-> OracleProse]
    ELSE [ok |-> TRUE, text |-> oracle]

\* a lead before it has an aiAnalysis
NoVerdict == Verdict(Undefined, Undefined, Undefined, "")

\* buildAnalysisPrompt(company, websiteContent, topic) takes
\* websiteContent.substring(0, 3000) of a truthy websiteContent: TRUE when
\* that throws a TypeError
BuildAnalysisPromptThrows(websiteContent) ==
    Truthy(websiteContent) /\ websiteContent.t # "text"

\* faulty variant of AnalyzeCompanyRelevance: callAI outside the try block
AnalyzeCompanyRelevanceNoCatch(cfg, websiteContent, oracle) ==
    IF ~cfg.apiKey THEN [status |-> "fulfilled", verdict |-> NotConfigured, called |-> FALSE]
    ELSE IF BuildAnalysisPromptThrows(websiteContent)
    THEN [status |-> "rejected", verdict |-> NoVerdict, called |-> FALSE]
    ELSE LET r == CallAI(cfg, oracle)
         IN  IF r.ok
             THEN [status |-> "fulfilled", verdict |-> ParseAnalysisResponse(r.text), called |-> TRUE]
             ELSE [status |-> "rejected", verdict |-> NoVerdict,
                   called |-> cfg.provider \in {"openai", "anthropic"}]

\* analyzeCompanyRelevance(company, websiteContent, topic): the settled
\* promise, its verdict, and whether the oracle was called.  The prompt is
\* built before the try block.
AnalyzeCompanyRelevance(cfg, websiteContent, oracle) ==
    IF ~cfg.apiKey THEN [status |-> "fulfilled", verdict |-> NotConfigured, called |-> FALSE]
    ELSE IF BuildAnalysisPromptThrows(websiteContent)
    THEN [status |-> "rejected", verdict |-> NoVerdict, called |-> FALSE]
    ELSE LET r == CallAI(cfg, oracle)
         IN  IF r.ok
             THEN [status |-> "fulfilled", verdict |-> ParseAnalysisResponse(r.text), called |-> TRUE]
             ELSE [status |-> "fulfilled", verdict |-> AnalysisFailed,
                   called |-> cfg.provider \in {"openai", "anthropic"}]

\* (a, b) => b.relevanceScore - a.relevanceScore
CmpScore(a, b) == b.relevanceScore.n - a.relevanceScore.n

\* faulty variant of CmpScoreOrZero: a and b swapped
CmpScoreOrZeroAscending(a, b) == Or(a.relevanceScore, Num(0)).n - Or(b.relevanceScore, Num(0)).n

\* (a, b) => (b.relevanceScore || 0) - (a.relevanceScore || 0)
CmpScoreOrZero(a, b) == Or(b.relevanceScore, Num(0)).n - Or(a.relevanceScore, Num(0)).n

\* faulty variant of CmpIndex: a and b swapped
CmpIndexDescending(a, b) == b.index2 - a.index2

\* (a, b) => a.index - b.index, the index counted in halves
CmpIndex(a, b) == a.index2 - b.index2

\* the comparators handed to Array.prototype.sort
Compare(cmp, a, b) ==
    CASE cmp = "CmpScore" -> CmpScore(a, b)
      [] cmp = "CmpScoreOrZero" -> CmpScoreOrZero(a, b)
      [] cmp = "CmpIndex" -> CmpIndex(a, b)

\* Array.prototype.sort(cmp), a stable sort: the element at position i ends
\* behind the elements that compare less than it and behind those before it
\* that compare equal to it
Sort(seq, cmp) ==
    LET rank == Array([i \in 1..Len(seq) |->
                   1 + Cardinality({j \in 1..Len(seq) : Compare(cmp, seq[j], seq[i]) < 0})
                     + Cardinality({j \in 1..(i - 1) : Compare(cmp, seq[j], seq[i]) = 0})])
    IN  Array([p \in 1..Len(seq) |-> seq[CHOOSE i \in 1..Len(seq) : rank[i] = p]])

\* analyzeCompanies(companies, topic): one graded call per company, in order,
\* then the sort; oracleOf[idx] is what the oracle does with the call for lead
\* idx.  A rejected call ends the loop by an exception (threw).
AnalyzeCompanies(cfg, companies, oracleOf) ==
    LET calls == Array([j \in 1..Len(companies) |->
                          AnalyzeCompanyRelevance(cfg, Or(companies[j].websiteContent, EmptyText),
                                                  oracleOf[companies[j].idx])])
        results == Array([j \in 1..Len(companies) |->
                      [companies[j] EXCEPT !.aiAnalysis = calls[j].verdict,
                                           !.analyzed = TRUE,
                                           !.relevanceScore = calls[j].verdict.score]])
        firstRejected == IF \E j \in 1..Len(calls) : calls[j].status = "rejected"
                         THEN CHOOSE j \in 1..Len(calls) :
                                  /\ calls[j].status = "rejected"
                                  /\ \A h \in 1..(j - 1) : calls[h].status # "rejected"
                         ELSE Len(calls) + 1
        reached == SelectSeq(Array([j \in 1..Len(calls) |-> [j |-> j, c |-> calls[j]]]),
                             LAMBDA e : e.j <= firstRejected /\ e.c.called)
    IN  [threw |-> firstRejected <= Len(calls),
         results |-> IF firstRejected <= Len(calls) THEN <<>> ELSE Sort(results, "CmpScore"),
         oracleCalls |-> Array([j \in 1..Len(reached) |-> companies[reached[j].j].idx])]

-----------------------------------------------------------------------------
(* CompanyAnalysisService: binary matcher                                  *)

\* what the oracle does with one call of callAIFlexible: the HTTP call fails,
\* or it returns the content of the message, a string or (a message without
\* text) null
TextError == [kind |-> "error", text |-> Null]
TextAnswer(cs) == [kind |-> "text", text |-> Str(cs)]
NullAnswer == [kind |-> "text", text |-> Null]

\* String.prototype.toUpperCase, on the letters the answers are written in
UpperCase(c) ==
    CASE c = "y" -> "Y"
      [] c = "e" -> "E"
      [] c = "s" -> "S"
      [] c = "n" -> "N"
      [] c = "o" -> "O"
      [] OTHER -> c
ToUpperCase(cs) == [i \in 1..Len(cs) |-> UpperCase(cs[i])]

\* String.prototype.includes
Includes(cs, sub) == \E i \in 0..(Len(cs) - Len(sub)) : SubSeq(cs, i + 1, i + Len(sub)) = sub

YES == <<"Y", "E", "S">>

\* callAIFlexible(prompt, systemPrompt, temperature): [ok, text, called]; an
\* unsupported provider throws before any request, a failed request throws
CallAIFlexible(cfg, oracle) ==
    IF cfg.provider \notin {"openai", "anthropic"} THEN [ok |-> FALSE, text |-> Null, called |-> FALSE]
    ELSE IF oracle.kind = "error" THEN [ok |-> FALSE, text |-> Null, called |-> TRUE]
    ELSE [ok |-> TRUE, text |-> oracle.text, called |-> TRUE]

\* websiteContent.trim() is the empty string: a text without any part is
\* made of whitespace alone
TrimIsEmpty(websiteContent) == websiteContent.parts = <<>>

\* faulty variant of TopicAnswer: a failed call counts as YES
TopicAnswerLenient(r) ==
    [status |-> "fulfilled",
     value |-> ~r.ok \/ (r.text.t = "string" /\ Includes(ToUpperCase(r.text.s), YES)),
     called |-> r.called]

\* the try block of checkCompanyTopicRelation on r, what callAIFlexible did:
\* response.trim().toUpperCase().includes('YES'), and false when the call or
\* response.trim threw
TopicAnswer(r) ==
    [status |-> "fulfilled",
     value |-> r.ok /\ r.text.t = "string" /\ Includes(ToUpperCase(r.text.s), YES),
     called |-> r.called]

\* checkCompanyTopicRelation(websiteUrl, websiteContent, topic): the settled
\* promise, its boolean, and whether a request was sent to the oracle.  The
\* guard runs before the try block: a truthy websiteContent that is no string
\* has no trim method and the call throws a TypeError.
CheckCompanyTopicRelation(cfg, websiteContent, oracle) ==
    IF ~Truthy(websiteContent) THEN [status |-> "fulfilled", value |-> FALSE, called |-> FALSE]
    ELSE IF websiteContent.t # "text" THEN [status |-> "rejected", value |-> FALSE, called |-> FALSE]
    ELSE IF TrimIsEmpty(websiteContent) THEN [status |-> "fulfilled", value |-> FALSE, called |-> FALSE]
    ELSE TopicAnswer(CallAIFlexible(cfg, oracle))

\* company.website || company.website_url || company.domain
CompanyWebsiteUrl(company) == Or(Or(company.website, company.website_url), company.domain)

\* "Ensure URL has protocol"
FullUrl(websiteUrl) ==
    IF StartsWith(websiteUrl.s, HTTPColon) \/ StartsWith(websiteUrl.s, HTTPSColon)
    THEN websiteUrl
    ELSE Str(HTTPSColon \o websiteUrl.s)

\* what processCompany settles with: { company, index, isRelated } or a
\* rejection, with the url it fetched (get) and whether it asked the oracle
Unit(status, isRelated, url, get, called) ==
    [status |-> status, isRelated |-> isRelated, url |-> url, get |-> get, called |-> called]

\* processCompany after checkCompanyTopicRelation settled with rel; a
\* rejection lands in the catch block
ProcessChecked(fullUrl, rel) ==
    Unit("fulfilled", IF rel.status = "rejected" THEN Null ELSE Bool(rel.value),
         fullUrl, TRUE, rel.called)

\* processCompany after scrapeWebsite(fullUrl) settled with scraped
ProcessScraped(cfg, fullUrl, scraped, oracle) ==
    IF scraped.status = "rejected" \/ ~Truthy(scraped.value)
    THEN Unit("fulfilled", Null, fullUrl, scraped.get, FALSE)
    ELSE ProcessChecked(fullUrl, CheckCompanyTopicRelation(
                                     cfg, ExtractTextForAnalysis(scraped.value), oracle))

\* processCompany after the url was completed
ProcessFullUrl(cfg, fullUrl, net, oracle) ==
    ProcessScraped(cfg, fullUrl, ScrapeWebsite(fullUrl, net), oracle)

\* processCompany(company, index): fullUrl.startsWith runs before the try
\* block and throws a TypeError when the website is truthy and no string
ProcessCompany(cfg, company, net, oracle) ==
    IF ~Truthy(CompanyWebsiteUrl(company)) THEN Unit("fulfilled", Null, Undefined, FALSE, FALSE)
    ELSE IF CompanyWebsiteUrl(company).t # "string"
    THEN Unit("rejected", Undefined, Undefined, FALSE, FALSE)
    ELSE ProcessFullUrl(cfg, FullUrl(CompanyWebsiteUrl(company)), net, oracle)

\* a settled unit of work with the company and the index it carries, the
\* index counted in halves
Indexed(company, j, u) ==
    [company |-> company, index2 |-> 2 * (j - 1), status |-> u.status,
     isRelated |-> u.isRelated, url |-> u.url, get |-> u.get, called |-> u.called]

\* what the units of work of companies settle with: netOf and oracleOf tell
\* what the network and the oracle do for the company at each position
FilterUnits(cfg, companies, netOf, oracleOf) ==
    Array([j \in 1..Len(companies) |->
             Indexed(companies[j], j,
                     ProcessCompany(cfg, companies[j], netOf[companies[j].idx],
                                    oracleOf[companies[j].idx]))])

\* the units started by the loop over windows of maxConcurrent companies:
\* Promise.all rejects with the first window that holds a rejected unit, and
\* no later window starts
StartedUnits(units, maxConcurrent) ==
    IF \E j \in 1..Len(units) : units[j].status = "rejected"
    THEN SubSeq(units, 1,
                Min(Len(units),
                    ((((CHOOSE j \in 1..Len(units) :
                           /\ units[j].status = "rejected"
                           /\ \A h \in 1..(j - 1) : units[h].status # "rejected") - 1)
                       \div maxConcurrent) + 1) * maxConcurrent))
    ELSE units

\* r => r.isRelated === true
IsMatch(r) == r.isRelated = Bool(TRUE)

\* results.sort(...).filter(...).map(r => r.company)
FilteredCompanies(results) ==
    LET matched == SelectSeq(Sort(results, "CmpIndex"), IsMatch)
    IN  Array([j \in 1..Len(matched) |-> matched[j].company])

\* the outcome of the loop whose units are started: the call, the fetches
\* and the oracle requests it issued
FilterOutcome(started) ==
    [status |-> IF \E j \in 1..Len(started) : started[j].status = "rejected"
                THEN "rejected" ELSE "fulfilled",
     data |-> IF \E j \in 1..Len(started) : started[j].status = "rejected"
              THEN <<>> ELSE FilteredCompanies(started),
     units |-> started,
     fetches |-> LET got == SelectSeq(started, LAMBDA u : u.get)
                 IN  Array([j \in 1..Len(got) |-> [run |-> 1, idx |-> got[j].company.idx, url |-> got[j].url]]),
     oracleCalls |-> LET asked == SelectSeq(started, LAMBDA u : u.called)
                     IN  Array([j \in 1..Len(asked) |-> [run |-> 1, idx |-> asked[j].company.idx]])]

\* filterCompaniesByTopicParallel(companies, topic, scraperService,
\* maxConcurrent), for a maxConcurrent that is a positive integer
FilterCompaniesByTopicParallel(cfg, companies, netOf, oracleOf, maxConcurrent) ==
    IF companies = <<>>
    THEN [status |-> "fulfilled", data |-> <<>>, units |-> <<>>, fetches |-> <<>>, oracleCalls |-> <<>>]
    ELSE FilterOutcome(StartedUnits(FilterUnits(cfg, companies, netOf, oracleOf), maxConcurrent))

-----------------------------------------------------------------------------
(* LeadEnrichmentController                                                *)

\* a lead of the request body; idx is its position in the list it was sent in
Lead(kind, i) ==
    [idx |-> i, website |-> kind.website, domain |-> kind.domain,
     website_url |-> kind.website_url, relevanceScore |-> kind.relevanceScore,
     websiteContent |-> kind.websiteContent, websiteScraped |-> Undefined,
     aiAnalysis |-> NoVerdict, analyzed |-> FALSE]

\* a destructuring default: it applies to undefined alone
Default(v, d) == IF v.t = "undefined" THEN d ELSE v

\* lead.website || lead.domain || lead.website_url
WebsiteUrl(lead) == Or(Or(lead.website, lead.domain), lead.website_url)

\* lead.website || lead.domain
InternalWebsiteUrl(lead) == Or(lead.website, lead.domain)

\* faulty variant: the first result, whatever its url
FindScrapedFirst(scrapedData, websiteUrl) ==
    IF scrapedData # <<>> THEN 1 ELSE 0

\* scrapedData.find(s => s && s.url === websiteUrl): 0 when there is none
FindScraped(scrapedData, websiteUrl) ==
    IF \E j \in 1..Len(scrapedData) : scrapedData[j].url = websiteUrl
    THEN CHOOSE j \in 1..Len(scrapedData) :
             /\ scrapedData[j].url = websiteUrl
             /\ \A h \in 1..(j - 1) : scrapedData[h].url # websiteUrl
    ELSE 0

\* the GET requests scrapeMultiple issues for the leads that have a url
FetchesOf(run, withUrl, urls, netOf) ==
    LET calls == Array([j \in 1..Len(withUrl) |-> [idx |-> withUrl[j].idx, url |-> urls[j]]])
        issued == SelectSeq(calls, LAMBDA c : ScrapeWebsite(c.url, netOf[c.idx]).get)
    IN  Array([j \in 1..Len(issued) |-> [run |-> run, idx |-> issued[j].idx, url |-> issued[j].url]])

\* step 1 of enrichLeads: scrape the leads' websites and map the content back
EnrichLeadsScrape(leads, netOf) ==
    LET withUrl == SelectSeq(leads, LAMBDA l : Truthy(WebsiteUrl(l)))
        urls == Array([j \in 1..Len(withUrl) |-> WebsiteUrl(withUrl[j])])
        nets == Array([j \in 1..Len(withUrl) |-> netOf[withUrl[j].idx]])
        scrapedData == ScrapeMultiple(urls, nets, EnrichConcurrency)
    IN  IF urls = <<>> THEN [leads |-> leads, fetches |-> <<>>]
        ELSE [leads |-> Array([k \in 1..Len(leads) |->
                          LET found == FindScraped(scrapedData, WebsiteUrl(leads[k]))
                          IN  [leads[k] EXCEPT
                                 !.websiteContent = IF found > 0
                                                    THEN ExtractTextForAnalysis(scrapedData[found])
                                                    ELSE NoText,
                                 !.websiteScraped = Bool(found > 0)]]),
              fetches |-> FetchesOf(1, withUrl, urls, netOf)]

\* faulty variant of PassesFilter: > in place of >=
PassesFilterStrict(lead, ai, minScore) ==
    ~ai \/ (GE(Or(lead.relevanceScore, Num(0)), ParseFloat(minScore))
             /\ Or(lead.relevanceScore, Num(0)).n # ParseFloat(minScore).n)

\* lead => !enable_ai_analysis || (lead.relevanceScore || 0) >= parseFloat(min_relevance_score)
PassesFilter(lead, ai, minScore) ==
    ~ai \/ GE(Or(lead.relevanceScore, Num(0)), ParseFloat(minScore))

\* faulty variant of LeadsToProcess: the slice is left out
LeadsToProcessAll(leads) == leads

\* leads.slice(0, Math.min(leads.length, 50))
LeadsToProcess(leads) == SubSeq(leads, 1, Min(Len(leads), MaxLeadsToProcess))

ErrorResponse(code) ==
    [status |-> code, success |-> FALSE, data |-> <<>>,
     total_input |-> 0, total_processed |-> 0, total_enriched |-> 0]

\* enrichLeads(req, res) with req.body = body: the response and what the run did
EnrichLeads(cfg, body, netOf, oracleOf) ==
    IF body.leads.t # "array" \/ body.leads.items = <<>>
    THEN [response |-> ErrorResponse(400), runs |-> <<>>, fetches |-> <<>>, oracleCalls |-> <<>>]
    ELSE IF ~Truthy(body.topic) /\ ~Truthy(body.icp_description)
    THEN [response |-> ErrorResponse(400), runs |-> <<>>, fetches |-> <<>>, oracleCalls |-> <<>>]
    ELSE
    LET leads == body.leads.items
        minScore == Default(body.min_relevance_score, Num(DefaultMinRelevanceScore))
        scraping == Truthy(Default(body.enable_website_scraping, Bool(TRUE)))
        ai == Truthy(Default(body.enable_ai_analysis, Bool(TRUE)))
        maxLeadsToProcess == Min(Len(leads), MaxLeadsToProcess)
        sliced == LeadsToProcess(leads)
        scrape == IF scraping THEN EnrichLeadsScrape(sliced, netOf)
                  ELSE [leads |-> sliced, fetches |-> <<>>]
        analysis == IF ai THEN AnalyzeCompanies(cfg, scrape.leads, oracleOf)
                    ELSE [threw |-> FALSE, results |-> scrape.leads, oracleCalls |-> <<>>]
        filteredLeads == Sort(SelectSeq(analysis.results, LAMBDA l : PassesFilter(l, ai, minScore)),
                              "CmpScoreOrZero")
        calls == Array([j \in 1..Len(analysis.oracleCalls) |->
                          [run |-> 1, idx |-> analysis.oracleCalls[j]]])
    IN  IF analysis.threw
        THEN [response |-> ErrorResponse(500),
              runs |-> << [run |-> 1, entered |-> sliced, enriched |-> <<>>, data |-> <<>>,
                           scraping |-> scraping, ai |-> ai, minScore |-> minScore,
                           completed |-> FALSE] >>,
              fetches |-> scrape.fetches, oracleCalls |-> calls]
        ELSE [response |-> [status |-> 200, success |-> TRUE, data |-> filteredLeads,
                            total_input |-> Len(leads), total_processed |-> maxLeadsToProcess,
                            total_enriched |-> Len(filteredLeads)],
              runs |-> << [run |-> 1, entered |-> sliced, enriched |-> analysis.results,
                           data |-> filteredLeads, scraping |-> scraping, ai |-> ai,
                           minScore |-> minScore, completed |-> TRUE] >>,
              fetches |-> scrape.fetches, oracleCalls |-> calls]

\* the scraping step of enrichLeadsInternal: lead.website || lead.domain,
\* windows of 3, and no websiteScraped mark
InternalScrape(run, leads, netOf) ==
    LET withUrl == SelectSeq(leads, LAMBDA l : Truthy(InternalWebsiteUrl(l)))
        urls == Array([j \in 1..Len(withUrl) |-> InternalWebsiteUrl(withUrl[j])])
        nets == Array([j \in 1..Len(withUrl) |-> netOf[withUrl[j].idx]])
        scrapedData == ScrapeMultiple(urls, nets, InternalConcurrency)
    IN  IF urls = <<>> THEN [leads |-> leads, fetches |-> <<>>]
        ELSE [leads |-> Array([k \in 1..Len(leads) |->
                          LET found == FindScraped(scrapedData, InternalWebsiteUrl(leads[k]))
                          IN  [leads[k] EXCEPT
                                 !.websiteContent = IF found > 0
                                                    THEN ExtractTextForAnalysis(scrapedData[found])
                                                    ELSE NoText]]),
              fetches |-> FetchesOf(run, withUrl, urls, netOf)]

\* a call of enrichLeadsInternal that threw
InternalThrew(run, entered, scraping, fetches, calls) ==
    [threw |-> TRUE, data |-> <<>>, total_input |-> 0, total_enriched |-> 0,
     runs |-> IF entered = <<>> THEN <<>>
              ELSE << [run |-> run, entered |-> entered, enriched |-> <<>>, data |-> <<>>,
                       scraping |-> scraping, ai |-> TRUE, minScore |-> Undefined,
                       completed |-> FALSE] >>,
     fetches |-> fetches, oracleCalls |-> calls]

\* enrichLeadsInternal(params), the run-th run of the pipeline: what it
\* returns, or that it threw, and what the run did.  There is no validation
\* and no slice: [...leads] throws when leads is not iterable.
EnrichLeadsInternal(cfg, run, params, netOf, oracleOf) ==
    IF params.leads.t # "array" THEN InternalThrew(run, <<>>, FALSE, <<>>, <<>>)
    ELSE
    LET leads == params.leads.items
        minScore == Default(params.min_relevance_score, Num(DefaultMinRelevanceScore))
        scraping == Truthy(Default(params.enable_website_scraping, Bool(TRUE)))
        ai == Truthy(Default(params.enable_ai_analysis, Bool(TRUE)))
        scrape == IF scraping THEN InternalScrape(run, leads, netOf)
                  ELSE [leads |-> leads, fetches |-> <<>>]
        analysis == IF ai /\ Truthy(params.topic)
                    THEN AnalyzeCompanies(cfg, scrape.leads, oracleOf)
                    ELSE [threw |-> FALSE, results |-> scrape.leads, oracleCalls |-> <<>>]
        filteredLeads == SelectSeq(analysis.results, LAMBDA l : PassesFilter(l, ai, minScore))
        calls == Array([j \in 1..Len(analysis.oracleCalls) |->
                          [run |-> run, idx |-> analysis.oracleCalls[j]]])
    IN  IF analysis.threw THEN InternalThrew(run, leads, scraping, scrape.fetches, calls)
        ELSE [threw |-> FALSE, data |-> filteredLeads,
              total_input |-> Len(leads), total_enriched |-> Len(filteredLeads),
              runs |-> IF leads = <<>> THEN <<>>
                       ELSE << [run |-> run, entered |-> leads, enriched |-> analysis.results,
                                data |-> filteredLeads, scraping |-> scraping, ai |-> ai,
                                minScore |-> minScore, completed |-> TRUE] >>,
              fetches |-> scrape.fetches, oracleCalls |-> calls]

\* the loop left by an error thrown in the catch block of a batch
LoopAborted == [aborted |-> TRUE, results |-> <<>>, runs |-> <<>>, fetches |-> <<>>,
                oracleCalls |-> <<>>]

\* the entry of results a batch adds, and what its run did, put before those
\* of the batches after it; r is what enrichLeadsInternal did with the batch.
\* For a batch that is null the call throws and batch.id throws again in the
\* catch block: the loop is left and the batches after it are not run.
BatchStep(k, batch, r, rest) ==
    IF batch.t = "null" THEN LoopAborted
    ELSE
    [aborted |-> rest.aborted,
     results |-> << [success |-> ~r.threw, batch_id |-> Or(batch.id, Num(k)),
                     data |-> r.data, total_input |-> r.total_input,
                     total_enriched |-> r.total_enriched] >> \o rest.results,
     runs |-> r.runs \o rest.runs,
     fetches |-> r.fetches \o rest.fetches,
     oracleCalls |-> r.oracleCalls \o rest.oracleCalls]

RECURSIVE BatchLoop(_, _, _, _, _, _)
\* the loop of batchEnrich over batches[k..]: each batch in its own try
\* block.  this.enrichLeadsInternal throws a TypeError when the method runs
\* without its receiver (thisBound is FALSE).
BatchLoop(cfg, thisBound, batches, netOf, oracleOf, k) ==
    IF k > Len(batches) THEN [aborted |-> FALSE, results |-> <<>>, runs |-> <<>>,
                              fetches |-> <<>>, oracleCalls |-> <<>>]
    ELSE BatchStep(k, batches[k],
                   IF thisBound
                   THEN EnrichLeadsInternal(cfg, k, batches[k], netOf[k], oracleOf[k])
                   ELSE InternalThrew(k, <<>>, FALSE, <<>>, <<>>),
                   BatchLoop(cfg, thisBound, batches, netOf, oracleOf, k + 1))

\* the response of batchEnrich after its loop
BatchResponse(batches, loop, successCount) ==
    [response |-> [status |-> 200, success |-> TRUE, data |-> loop.results,
                   total_batches |-> Len(batches), successful |-> successCount,
                   failed |-> Len(batches) - successCount],
     runs |-> loop.runs, fetches |-> loop.fetches, oracleCalls |-> loop.oracleCalls]

\* the number of results with success: true
SuccessCount(results) == Len(SelectSeq(results, LAMBDA r : r.success))

\* the response of batchEnrich to an error that left its loop
BatchFailed(loop) ==
    [response |-> [status |-> 500, success |-> FALSE, data |-> <<>>,
                   total_batches |-> 0, successful |-> 0, failed |-> 0],
     runs |-> loop.runs, fetches |-> loop.fetches, oracleCalls |-> loop.oracleCalls]

\* what batchEnrich answers with the results of its loop
BatchAnswer(batches, loop) ==
    IF loop.aborted THEN BatchFailed(loop)
    ELSE BatchResponse(batches, loop, SuccessCount(loop.results))

\* batchEnrich(req, res) with req.body = body
BatchEnrich(cfg, thisBound, body, netOf, oracleOf) ==
    IF body.batches.t # "array"
    THEN [response |-> [status |-> 400, success |-> FALSE, data |-> <<>>,
                        total_batches |-> 0, successful |-> 0, failed |-> 0],
          runs |-> <<>>, fetches |-> <<>>, oracleCalls |-> <<>>]
    ELSE BatchAnswer(body.batches.items,
                     BatchLoop(cfg, thisBound, body.batches.items, netOf, oracleOf, 1))

\* the response of filterCompanies to what the service call settled with
FilterResponse(companies, r) ==
    [response |-> IF r.status = "rejected"
                  THEN [status |-> 500, success |-> FALSE, data |-> <<>>,
                        total_input |-> 0, total_filtered |-> 0]
                  ELSE [status |-> 200, success |-> TRUE, data |-> r.data,
                        total_input |-> Len(companies), total_filtered |-> Len(r.data)],
     runs |-> << [status |-> r.status, units |-> r.units] >>,
     fetches |-> r.fetches, oracleCalls |-> r.oracleCalls]

\* filterCompanies(req, res) with req.body = body
FilterCompanies(cfg, body, netOf, oracleOf) ==
    IF body.companies.t # "array" \/ body.companies.items = <<>> \/ ~Truthy(body.topic)
    THEN [response |-> [status |-> 400, success |-> FALSE, data |-> <<>>,
                        total_input |-> 0, total_filtered |-> 0],
          runs |-> <<>>, fetches |-> <<>>, oracleCalls |-> <<>>]
    ELSE FilterResponse(body.companies.items,
                        FilterCompaniesByTopicParallel(
                            cfg, body.companies.items, netOf, oracleOf,
                            Default(body.maxConcurrent, Num(DefaultMaxConcurrent)).n))

-----------------------------------------------------------------------------
(* Inputs: request bodies, service configuration, environment              *)

NoFields == [website |-> Undefined, domain |-> Undefined, website_url |-> Undefined,
             relevanceScore |-> Undefined, websiteContent |-> NoContent]

\* the leads a client sends: with a website URL, with a bare domain, with no
\* website field at all, with a website that is no string, with a website_url
\* alone, one that comes with a relevanceScore of an earlier enrichment, and
\* one that comes with a websiteContent that is no string
KSite == [NoFields EXCEPT !.website = Str(HTTPSColon \o HostA)]
KDomain == [NoFields EXCEPT !.domain = Str(HostB)]
KNone == NoFields
KNonString == [NoFields EXCEPT !.website = Num(7)]
KWebsiteUrl == [NoFields EXCEPT !.website_url = Str(HTTPColon \o HostB)]
KScored == [NoFields EXCEPT !.website = Str(HTTPSColon \o HostA), !.relevanceScore = Num(9)]
KContent == [NoFields EXCEPT !.websiteContent = NumberContent]

LeadKinds == {KSite, KDomain, KNone, KNonString, KWebsiteUrl, KScored, KContent}

APage == NetPage(12, 40, 30, 300)

Nets == {NetFail, APage}

\* every way a GET fails: network error, timeout, body over maxContentLength,
\* status >= 400
NetFailures == {NetFailure(w) : w \in {"network error", "timeout", "oversize", "status"}}

Relevant7 == OracleJson(JObject(Bool(TRUE), Num(80), Num(7), Str(<<"o", "k">>)))
Irrelevant3 == OracleJson(JObject(Bool(FALSE), Num(20), Num(3), Str(<<"n", "o">>)))

Oracles == {OracleError, OracleProse, Relevant7, Irrelevant3}

\* process.env: no API key, a key with a supported provider, a key with an
\* unsupported AI_PROVIDER
Configs == {[apiKey |-> FALSE, provider |-> "openai"],
            [apiKey |-> TRUE, provider |-> "openai"],
            [apiKey |-> TRUE, provider |-> "azure"]}

Flags == {Undefined, Bool(FALSE)}

\* min_relevance_score: absent, or sent as a string
MinScores == {Undefined, Str(<<"0">>)}

\* with analysis switched off the analysis service is not constructed and the
\* filter does not read min_relevance_score: one value of each is drawn
ConfigsFor(aiFlag) == IF Truthy(Default(aiFlag, Bool(TRUE))) THEN Configs
                      ELSE {[apiKey |-> TRUE, provider |-> "openai"]}
MinScoresFor(aiFlag) == IF Truthy(Default(aiFlag, Bool(TRUE))) THEN MinScores ELSE {Undefined}

ATopic == Str(<<"c", "l", "o", "u", "d">>)

\* a scenario is a lead together with what the network and the oracle do with
\* it.  The network outcome is drawn only where a GET is issued and the oracle
\* outcome only where the oracle is called; the lead with a website draws
\* every outcome, the other leads two oracle outcomes.
IssuesGet(url) == url.t = "string" /\ StartsWith(url.s, HTTP)

IsFetched(kind, scraping, internal) ==
    scraping /\ IssuesGet(IF internal THEN InternalWebsiteUrl(kind) ELSE WebsiteUrl(kind))

OracleIsCalled(cfg, ai) == ai /\ cfg.apiKey /\ cfg.provider \in {"openai", "anthropic"}

Scenarios(scraping, called, internal) ==
    LET NetsOf(k) == IF ~IsFetched(k, scraping, internal) THEN {NetFail}
                     ELSE IF k = KSite THEN Nets ELSE {APage}
        OraclesOf(k) == IF ~called THEN {OracleError}
                        ELSE IF k = KSite THEN Oracles ELSE {OracleError, Relevant7}
    IN  UNION {{[kind |-> k, net |-> x, oracle |-> o] : x \in NetsOf(k), o \in OraclesOf(k)} :
                  k \in LeadKinds}

\* the lead lists: every list of up to MaxLen scenarios, and the lists of
\* MaxLeadsToProcess and MaxLeadsToProcess + 1 leads with a website, the
\* first of which may differ from the others
ShortLists(S) == UNION {[1..n -> S] : n \in 0..MaxLen}

LongLists(S) ==
    {[i \in 1..n |-> IF i = 1 THEN first ELSE filler] :
        first \in {sc \in S : sc.kind = KSite},
        filler \in {sc \in S : sc.kind = KSite /\ sc.net = APage /\ sc.oracle \in {OracleError, Relevant7}},
        n \in {MaxLeadsToProcess, MaxLeadsToProcess + 1}}

LeadLists(S) == ShortLists(S) \cup LongLists(S)

LeadsOf(scs) == [t |-> "array", items |-> Array([i \in 1..Len(scs) |-> Lead(scs[i].kind, i)])]
NetOf(scs) == Array([i \in 1..Len(scs) |-> scs[i].net])
OracleOf(scs) == Array([i \in 1..Len(scs) |-> scs[i].oracle])

\* a request without leads or without topic comes with at most one lead
LeadsValues(scs) == {LeadsOf(scs)} \cup (IF scs = <<>> THEN {Undefined} ELSE {})
Topics(scs) == IF Len(scs) <= 1 THEN {ATopic, Undefined} ELSE {ATopic}

\* the batches of a /batch-enrich request: without leads, with an empty
\* list or with one lead, each with or without topic, and with
\* MaxLeadsToProcess + 1 leads and a topic
BatchScenarios ==
    { <<>>,
      << [kind |-> KSite, net |-> APage, oracle |-> Relevant7] >>,
      << [kind |-> KSite, net |-> NetFail, oracle |-> Irrelevant3] >>,
      << [kind |-> KContent, net |-> NetFail, oracle |-> Relevant7] >> }

LongBatchScenario ==
    [i \in 1..(MaxLeadsToProcess + 1) |-> [kind |-> KSite, net |-> APage, oracle |-> Relevant7]]

Batch(scs, leads, topic) ==
    [t |-> "object", id |-> Undefined, leads |-> leads, topic |-> topic, min_relevance_score |-> Undefined,
     enable_website_scraping |-> Undefined, enable_ai_analysis |-> Undefined, scs |-> scs]

\* an element of batches that is null
NullBatch ==
    [t |-> "null", id |-> Undefined, leads |-> Undefined, topic |-> Undefined,
     min_relevance_score |-> Undefined, enable_website_scraping |-> Undefined,
     enable_ai_analysis |-> Undefined, scs |-> <<>>]

BatchInputs ==
    UNION {{Batch(scs, leads, topic) : leads \in LeadsValues(scs), topic \in {ATopic, Undefined}} :
              scs \in BatchScenarios}
    \cup {Batch(LongBatchScenario, LeadsOf(LongBatchScenario), ATopic), NullBatch}

\* the answers of the oracle in binary mode: YES and NO in several spellings,
\* an answer holding YES inside a sentence, answers without it, and a message
\* without text
TextAnswers ==
    {TextAnswer(YES), TextAnswer(<<"y", "e", "s">>), TextAnswer(<<"Y", "e", "s", ".">>),
     TextAnswer(<<" ", "y", "E", "s", "\n">>), TextAnswer(<<"n", "o", "t", " ", "y", "e", "s">>),
     TextAnswer(<<"N", "O">>), TextAnswer(<<"N", "o">>), TextAnswer(<<"Y", "E">>),
     TextAnswer(<<>>), NullAnswer}

\* without an API key the request is sent with no credential and fails
TextOracles(cfg) == IF cfg.apiKey THEN TextAnswers \cup {TextError} ELSE {TextError}

\* a company together with what the network and the oracle do with it: the
\* company with a website draws every outcome, the others fewer
CompanyScenarios(cfg) ==
    LET NetsOf(k) == IF ~Truthy(CompanyWebsiteUrl(k)) \/ CompanyWebsiteUrl(k).t # "string"
                     THEN {NetFail}
                     ELSE IF k = KSite THEN Nets ELSE {APage}
        OraclesOf(k, x) ==
            IF ~x.ok \/ ~cfg.apiKey \/ cfg.provider \notin {"openai", "anthropic"} THEN {TextError}
            ELSE IF k = KSite
            THEN {TextError, NullAnswer, TextAnswer(YES), TextAnswer(<<"y", "e", "s">>),
                  TextAnswer(<<"N", "o">>)}
            ELSE {TextError, TextAnswer(YES)}
    IN  UNION {UNION {{[kind |-> k, net |-> x, oracle |-> o] : o \in OraclesOf(k, x)} :
                         x \in NetsOf(k)} :
                  k \in {KSite, KDomain, KNone, KNonString, KWebsiteUrl}}

\* maxConcurrent of the request body: absent, 1, 2
MaxConcurrentValues == {Undefined, Num(1), Num(2)}

-----------------------------------------------------------------------------
(* WebsiteAnalysisCache                                                    *)

\* JSON.stringify(analysisData), the text bound to $2
JsonStringify(doc) == [t |-> "json", text |-> doc]

NoKey == [domain |-> "", topic |-> ""]

NoRow == [present |-> FALSE, key |-> NoKey, analysis_data |-> JsonStringify(Null), relevance_score |-> 0,
          hit_count |-> 0, created_at |-> 0, last_accessed_at |-> 0, updated_at |-> 0]

\* the row the INSERT adds: hit_count 1, last_accessed_at CURRENT_TIMESTAMP,
\* created_at and updated_at from their column defaults
InsertedRow(key, v, at) ==
    [present |-> TRUE, key |-> key, analysis_data |-> JsonStringify(v.analysisData),
     relevance_score |-> v.relevanceScore, hit_count |-> 1,
     created_at |-> at, last_accessed_at |-> at, updated_at |-> at]

\* faulty variant: the conflict branch starts the counter again
ConflictRowResetsCount(row, v, at) ==
    [row EXCEPT !.analysis_data = JsonStringify(v.analysisData),
                !.relevance_score = v.relevanceScore,
                !.hit_count = 1,
                !.last_accessed_at = at,
                !.updated_at = at]

\* ON CONFLICT (domain, topic) DO UPDATE SET ...: created_at is not assigned
ConflictRow(row, v, at) ==
    [row EXCEPT !.analysis_data = JsonStringify(v.analysisData),
                !.relevance_score = v.relevanceScore,
                !.hit_count = @ + 1,
                !.last_accessed_at = at,
                !.updated_at = at]

\* the rows WHERE domain = $1 AND topic = $2
Matching(table, key) == {row \in table : row.key = key}

\* result.rows[0] of a statement that returns the rows of one key
RowOf(table, key) ==
    IF Matching(table, key) = {} THEN NoRow ELSE CHOOSE row \in Matching(table, key) : TRUE

\* upsert({domain, analysisData, relevanceScore, topic}): one statement, which
\* inserts unless a row of the table has the same (domain, topic)
Upsert(table, key, v, at) ==
    IF Matching(table, key) = {}
    THEN table \cup {InsertedRow(key, v, at)}
    ELSE {IF row.key = key THEN ConflictRow(row, v, at) ELSE row : row \in table}

\* created_at > CURRENT_TIMESTAMP - INTERVAL '7 days'
Fresh(row, at) == row.created_at > at - FreshnessDays

\* the SELECT of findByDomain: result.rows[0], NoRow when no row came back
SelectFresh(table, key, at) ==
    RowOf({row \in table : Fresh(row, at)}, key)

\* faulty variant: the counter is written from the row the SELECT returned
IncrementHitCountOfSelected(row, selected, at) ==
    [row EXCEPT !.hit_count = selected.hit_count + 1, !.last_accessed_at = at]

\* SET hit_count = hit_count + 1, last_accessed_at = CURRENT_TIMESTAMP
IncrementHitCount(row, selected, at) ==
    [row EXCEPT !.hit_count = @ + 1, !.last_accessed_at = at]

\* the UPDATE of findByDomain: WHERE domain = $1 AND topic = $2
UpdateHit(table, key, selected, at) ==
    {IF row.key = key THEN IncrementHitCount(row, selected, at) ELSE row : row \in table}

\* daysOld = 7 when the argument is undefined
DaysOld(daysOld) == IF daysOld.t = "undefined" THEN DefaultDaysOld ELSE daysOld.n

\* faulty variant: rows created exactly daysOld days ago go as well
IsOldInclusive(row, daysOld, at) == row.created_at <= at - DaysOld(daysOld)

\* created_at < CURRENT_TIMESTAMP - INTERVAL '${daysOld} days'
IsOld(row, daysOld, at) == row.created_at < at - DaysOld(daysOld)

\* pruneOldEntries(daysOld): DELETE ... RETURNING id
PruneOldEntries(table, daysOld, at) ==
    {row \in table : ~IsOld(row, daysOld, at)}

\* result.rowCount of the DELETE
RowCount(table, pruned) == Cardinality(table \ pruned)

\* keys, values and arguments the cache is driven with
CacheKeys == {[domain |-> "acme.io", topic |-> "solar"],
              [domain |-> "acme.io", topic |-> "wind"]}

AnalysisValues == {[analysisData |-> [isRelevant |-> TRUE], relevanceScore |-> 8],
                   [analysisData |-> [isRelevant |-> FALSE], relevanceScore |-> 2]}

NoValue == [analysisData |-> Null, relevanceScore |-> 0]

PruneDays == {Undefined, Num(1)}

\* the instants the database is looked at: the first two days, and the days
\* from the end of the freshness window on
Instants == {0, 1} \cup (FreshnessDays..MaxDay)

NoCall == [kind |-> "none", key |-> <<>>, daysOld |-> Undefined]

-----------------------------------------------------------------------------
(* Specification of the operations                                         *)

NoWin == [exec |-> "none", n |-> 0, limit2 |-> 0, i2 |-> 0, phase |-> "none",
          k |-> 0, units |-> <<>>, delays |-> 0, results |-> <<>>, overtaken |-> FALSE]

NoResponse == [status |-> 0]

\* the promise an async function returns when it throws
RejectedWith(reason) == [status |-> "rejected", reason |-> reason]

Init ==
    /\ pc = "idle"
    /\ op = "none"
    /\ request = <<>>
    /\ response = NoResponse
    /\ runs = <<>>
    /\ fetchLog = <<>>
    /\ oracleLog = <<>>
    /\ win = NoWin
    /\ cache = {}
    /\ now = 0
    /\ pending = <<>>
    /\ stmts = [n |-> 0, last |-> NoCall]
    /\ history = [k \in CacheKeys |-> [completed |-> 0, written |-> NoValue]]

\* an operation that runs from its call to its return in one step
Returns(name, req, r) ==
    /\ pc' = "done"
    /\ op' = name
    /\ request' = req
    /\ response' = r.response
    /\ runs' = r.runs
    /\ fetchLog' = r.fetches
    /\ oracleLog' = r.oracleCalls
    /\ UNCHANGED <<win, cacheVars>>

\* POST /enrich
PostEnrich ==
    /\ pc = "idle"
    /\ \E scrapingFlag \in Flags, aiFlag \in Flags :
       \E cfg \in ConfigsFor(aiFlag), minScore \in MinScoresFor(aiFlag) :
         \E scs \in LeadLists(Scenarios(scrapingFlag.t = "undefined",
                                        OracleIsCalled(cfg, aiFlag.t = "undefined"), FALSE)) :
           \E leads \in LeadsValues(scs), topic \in Topics(scs) :
             LET body == [leads |-> leads, topic |-> topic, icp_description |-> Undefined,
                          min_relevance_score |-> minScore,
                          enable_website_scraping |-> scrapingFlag,
                          enable_ai_analysis |-> aiFlag]
             IN  \E r \in {EnrichLeads(cfg, body, NetOf(scs), OracleOf(scs))} :
                   Returns("enrichLeads", [cfg |-> cfg, body |-> body, scs |-> scs], r)

\* a call of enrichLeadsInternal(params) on the controller
CallEnrichLeadsInternal ==
    /\ pc = "idle"
    /\ \E scrapingFlag \in Flags, aiFlag \in Flags :
       \E cfg \in ConfigsFor(aiFlag), minScore \in MinScoresFor(aiFlag) :
         \E scs \in LeadLists(Scenarios(scrapingFlag.t = "undefined",
                                        OracleIsCalled(cfg, aiFlag.t = "undefined"),
                                        TRUE)) :
           \E leads \in LeadsValues(scs), topic \in Topics(scs) :
             LET params == [leads |-> leads, topic |-> topic,
                            min_relevance_score |-> minScore,
                            enable_website_scraping |-> scrapingFlag,
                            enable_ai_analysis |-> aiFlag]
             IN  \E r \in {EnrichLeadsInternal(cfg, 1, params, NetOf(scs), OracleOf(scs))} :
                   Returns("enrichLeadsInternal", [cfg |-> cfg, body |-> params],
                           [response |-> [status |-> IF r.threw THEN "rejected" ELSE "fulfilled",
                                          data |-> r.data, total_input |-> r.total_input,
                                          total_enriched |-> r.total_enriched],
                            runs |-> r.runs, fetches |-> r.fetches, oracleCalls |-> r.oracleCalls])

\* POST /batch-enrich as the router invokes the handler (thisBound is FALSE),
\* or batchEnrich called on the controller (thisBound is TRUE)
PostBatchEnrich ==
    /\ pc = "idle"
    /\ \E cfg \in Configs, thisBound \in BOOLEAN, n \in 0..MaxBatches :
         \E bs \in [1..n -> BatchInputs], batches \in {"array", "undefined"} :
           /\ batches = "undefined" => n = 0
           /\ LET items == Array([k \in 1..n |-> bs[k]])
                  body == [batches |-> IF batches = "array"
                                       THEN [t |-> "array", items |-> items]
                                       ELSE Undefined]
              IN  \E r \in {BatchEnrich(cfg, thisBound, body,
                                          Array([k \in 1..n |-> NetOf(bs[k].scs)]),
                                          Array([k \in 1..n |-> OracleOf(bs[k].scs)]))} :
                    Returns("batchEnrich", [cfg |-> cfg, thisBound |-> thisBound, body |-> body], r)

\* the values a service call is made with
UrlValues == {Undefined, Null, Str(<<>>), Num(0), Num(7), Bool(TRUE), Str(HostB),
              Str(HTTPSColon \o HostA), Str(HTTPColon \o HostB)}

ContentValues == {EmptyText, ExtractTextForAnalysis(ScrapeWebsite(Str(HTTPSColon \o HostA), APage).value),
                  NumberContent}

\* the fields of an oracle response: in range, out of range, numeric and
\* non-numeric strings, of another type, absent
ConfidenceValues == {Num(80), Num(150), Num(-5), Str(<<"9", "0">>), Str(<<"h", "i", "g", "h">>),
                     Bool(TRUE), Null, Undefined}
ScoreValues == {Num(7), Num(11), Num(-3), Str(<<"8">>), Str(<<"x">>), Undefined}
IsRelevantValues == {Bool(TRUE), Bool(FALSE), Str(<<"t", "r", "u", "e">>), Undefined}

OracleResponses ==
    {OracleError, OracleProse, OracleJson(JNull), OracleJson(JScalar)}
    \cup {OracleJson(JObject(r, c, sc, Str(<<"o", "k">>))) :
             r \in IsRelevantValues, c \in ConfidenceValues, sc \in ScoreValues}

ServiceConfigs == Configs \cup {[apiKey |-> TRUE, provider |-> "anthropic"]}

\* the pages extractTextForAnalysis is called with: texts around the lengths
\* at which a part is kept and at which the content is cut, and no page
ScrapedValues ==
    {Null} \cup
    {[t |-> "object", url |-> Str(HTTPSColon \o HostA), title |-> ti, description |-> de,
      headings |-> he, content |-> co] :
        ti \in {0, 3, 4, MinPartLength, MinPartLength + 1},
        de \in {0, MinPartLength + 1},
        he \in {0, MinPartLength + 1},
        co \in {0, 1, 2, MinPartLength + 1, MaxAnalysisContent, MaxAnalysisContent + 1}}

\* a call of extractTextForAnalysis(scrapedData)
CallExtractTextForAnalysis ==
    /\ pc = "idle"
    /\ \E scraped \in ScrapedValues :
         Returns("extractTextForAnalysis", [scrapedData |-> scraped],
                 [response |-> [status |-> "returned", value |-> ExtractTextForAnalysis(scraped)],
                  runs |-> <<>>, fetches |-> <<>>, oracleCalls |-> <<>>])

\* a call of scrapeWebsite(url)
CallScrapeWebsite ==
    /\ pc = "idle"
    /\ \E url \in UrlValues :
         \E net \in IF IssuesGet(url) THEN NetFailures \cup {APage} ELSE {NetFail} :
           \E r \in {ScrapeWebsite(url, net)} :
             Returns("scrapeWebsite", [url |-> url, net |-> net],
                     [response |-> r, runs |-> <<>>,
                      fetches |-> IF r.get THEN << [run |-> 1, idx |-> 1, url |-> url] >> ELSE <<>>,
                      oracleCalls |-> <<>>])

\* a call of analyzeCompanyRelevance(company, websiteContent, topic)
CallAnalyzeCompanyRelevance ==
    /\ pc = "idle"
    /\ \E cfg \in ServiceConfigs, websiteContent \in ContentValues :
         \E oracle \in IF OracleIsCalled(cfg, ~BuildAnalysisPromptThrows(websiteContent))
                        THEN OracleResponses ELSE {OracleError} :
           \E r \in {AnalyzeCompanyRelevance(cfg, websiteContent, oracle)} :
             Returns("analyzeCompanyRelevance",
                     [cfg |-> cfg, websiteContent |-> websiteContent, oracle |-> oracle],
                     [response |-> r, runs |-> <<>>, fetches |-> <<>>,
                      oracleCalls |-> IF r.called THEN << [run |-> 1, idx |-> 1] >> ELSE <<>>])

\* a text made of whitespace alone
BlankText == [t |-> "text", n |-> 3, parts |-> <<>>, url |-> Undefined]

\* the websiteContent of a call: null, '', whitespace, the text of a page,
\* and a value that is no string
TopicContentValues ==
    {NoText, EmptyText, BlankText,
     ExtractTextForAnalysis(ScrapeWebsite(Str(HTTPSColon \o HostA), APage).value),
     NumberContent}

\* POST /filter-companies
PostFilterCompanies ==
    /\ pc = "idle"
    /\ \E cfg \in Configs, maxConcurrent \in MaxConcurrentValues :
         \E scs \in ShortLists(CompanyScenarios(cfg)) :
           \E companies \in LeadsValues(scs), topic \in Topics(scs) :
             LET body == [companies |-> companies, topic |-> topic,
                          maxConcurrent |-> maxConcurrent]
             IN  \E r \in {FilterCompanies(cfg, body, NetOf(scs), OracleOf(scs))} :
                   Returns("filterCompanies", [cfg |-> cfg, body |-> body, scs |-> scs], r)

\* a call of checkCompanyTopicRelation(websiteUrl, websiteContent, topic)
CallCheckCompanyTopicRelation ==
    /\ pc = "idle"
    /\ \E cfg \in ServiceConfigs, websiteContent \in TopicContentValues :
         \E oracle \in TextOracles(cfg) :
           \E r \in {CheckCompanyTopicRelation(cfg, websiteContent, oracle)} :
             Returns("checkCompanyTopicRelation",
                     [cfg |-> cfg, websiteContent |-> websiteContent, oracle |-> oracle],
                     [response |-> r, runs |-> <<>>, fetches |-> <<>>,
                      oracleCalls |-> IF r.called THEN << [run |-> 1, idx |-> 1] >> ELSE <<>>])

-----------------------------------------------------------------------------
(* The windowed executors, step by step                                    *)
(*                                                                         *)
(* scrapeMultiple(urls, concurrency) and the loop of                       *)
(* filterCompaniesByTopicParallel(companies, ..., maxConcurrent).  The     *)
(* window size and the loop index are counted in halves (limit2, i2), so   *)
(* that a maxConcurrent of 1.5 is a value: maxConcurrent is read from the  *)
(* request body as it is.                                                  *)

\* ToIntegerOrInfinity of a number given in halves: truncation towards zero
Trunc(x2) == IF x2 >= 0 THEN x2 \div 2 ELSE -((-x2) \div 2)

Max(a, b) == IF a >= b THEN a ELSE b

\* Array.prototype.slice(start, end) on an array of n elements: the positions
\* (counted from 1) of the elements it returns, in order
Slice(n, start, end) ==
    LET from == IF start < 0 THEN Max(n + start, 0) ELSE Min(start, n)
        to == IF end < 0 THEN Max(n + end, 0) ELSE Min(end, n)
    IN  [j \in 1..Max(to - from, 0) |-> from + j]

\* the loop index after i += concurrency (i += chunkSize), in halves.  With
\* a step of 0 or less every index at or below -n slices an empty window of
\* an array of n elements, so these indexes are represented by -n.
NextIndex2(i2, limit2, n) == Max(i2 + limit2, -2 * n)

\* the number of windows taken by a loop, counted up to MaxWindows: a loop
\* that takes more windows takes empty ones only
NextCount(k) == Min(k + 1, MaxWindows)

\* the window sizes the callers pass, in halves: scrapeMultiple gets 5 or 3
\* from the controller; maxConcurrent is any number of the request body
\* (-1, 0, 1, 1.5, 2) or the default
ScrapeConcurrencies2 == {2 * EnrichConcurrency, 2 * InternalConcurrency}
MaxConcurrents2 == {-2, 0, 2, 3, 4, 2 * DefaultMaxConcurrent}

\* the units of work started so far: [idx, window, status, index2, isRelated,
\* company], status being "inflight", "fulfilled" or "rejected"; index2 is
\* the index i + batchIndex a unit of filterCompaniesByTopicParallel carries,
\* in halves, and isRelated what it settled with.  results is the array the
\* loop of filterCompaniesByTopicParallel pushes to; overtaken tells that a
\* unit settled while a unit before it in its window was in flight.
InFlight == {j \in 1..Len(win.units) : win.units[j].status = "inflight"}

Invoke(exec, n, limit2) ==
    /\ pc = "idle"
    /\ pc' = "running"
    /\ op' = exec
    /\ request' = [n |-> n, limit2 |-> limit2]
    /\ win' = [exec |-> exec, n |-> n, limit2 |-> limit2, i2 |-> 0, phase |-> "loop",
               k |-> 0, units |-> <<>>, delays |-> 0, results |-> <<>>, overtaken |-> FALSE]
    /\ UNCHANGED <<response, runs, fetchLog, oracleLog, cacheVars>>

\* scrapeMultiple(urls, concurrency) is called with n urls
InvokeScrapeMultiple ==
    \E n \in 0..MaxUnits, limit2 \in ScrapeConcurrencies2 : Invoke("scrapeMultiple", n, limit2)

\* filterCompaniesByTopicParallel is called with n companies; it returns at
\* once when there is none
InvokeFilterCompanies ==
    \E n \in 1..MaxUnits, limit2 \in MaxConcurrents2 :
        Invoke("filterCompaniesByTopicParallel", n, limit2)

\* the loop condition holds: the next window is sliced and every unit of it
\* is started
StartWindow ==
    /\ pc = "running"
    /\ win.phase = "loop"
    /\ win.i2 < 2 * win.n
    /\ LET batch == Slice(win.n, Trunc(win.i2), Trunc(win.i2 + win.limit2))
       IN  win' = [win EXCEPT !.phase = "await", !.k = NextCount(@),
                              !.units = @ \o [j \in 1..Len(batch) |->
                                                [idx |-> batch[j], window |-> NextCount(win.k),
                                                 status |-> "inflight",
                                                 index2 |-> win.i2 + 2 * (j - 1),
                                                 isRelated |-> Undefined,
                                                 company |-> [idx |-> batch[j]]]]]
    /\ UNCHANGED <<pc, op, request, response, runs, fetchLog, oracleLog, cacheVars>>

\* a unit of work settles.  Promise.all of filterCompaniesByTopicParallel
\* rejects with the first unit that rejects, and the call rejects with it.
Settle ==
    /\ win.exec # "none"
    /\ \E j \in InFlight, outcome \in {"fulfilled", "rejected"} :
       \E isRelated \in IF win.exec = "filterCompaniesByTopicParallel" /\ outcome = "fulfilled"
                          THEN {Bool(TRUE), Bool(FALSE), Null} ELSE {Undefined} :
         LET aborts == /\ win.exec = "filterCompaniesByTopicParallel"
                       /\ outcome = "rejected"
                       /\ win.phase = "await"
         IN  /\ win' = [win EXCEPT !.units[j].status = outcome,
                                    !.units[j].isRelated = isRelated,
                                    !.overtaken = @ \/ \E h \in InFlight : h < j,
                                    !.phase = IF aborts THEN "rejected" ELSE @]
             /\ pc' = IF aborts THEN "done" ELSE pc
             /\ response' = IF aborts THEN RejectedWith("rejection of a unit") ELSE response
    /\ UNCHANGED <<op, request, runs, fetchLog, oracleLog, cacheVars>>

\* await Promise.all(batchPromises): the values the units of window k
\* settled with, in the order of the units
BatchResults(units, k) == SelectSeq(units, LAMBDA u : u.window = k)

\* faulty variant: the pacing delay follows every window
MoreUrlsLeftAlways == TRUE

\* if (i + concurrency < urls.length)
MoreUrlsLeft == win.i2 + win.limit2 < 2 * win.n

\* every promise of the window has settled (Promise.allSettled), or every one
\* is fulfilled (Promise.all): the loop goes on, in scrapeMultiple after the
\* pacing delay when more urls are left
WindowSettled ==
    /\ pc = "running"
    /\ win.phase = "await"
    /\ \A j \in 1..Len(win.units) :
          win.units[j].window = win.k => win.units[j].status # "inflight"
    /\ win' = IF win.exec = "scrapeMultiple" /\ MoreUrlsLeft
              THEN [win EXCEPT !.phase = "delay"]
              ELSE [win EXCEPT !.phase = "loop",
                               !.i2 = NextIndex2(@, win.limit2, win.n),
                               !.results = @ \o BatchResults(win.units, win.k)]
    /\ UNCHANGED <<pc, op, request, response, runs, fetchLog, oracleLog, cacheVars>>

\* the pacing delay of scrapeMultiple has elapsed
DelayElapsed ==
    /\ pc = "running"
    /\ win.phase = "delay"
    /\ win' = [win EXCEPT !.phase = "loop", !.i2 = NextIndex2(@, win.limit2, win.n),
                          !.delays = @ + 1]
    /\ UNCHANGED <<pc, op, request, response, runs, fetchLog, oracleLog, cacheVars>>

\* the loop condition fails: the executor returns
ExecutorReturns ==
    /\ pc = "running"
    /\ win.phase = "loop"
    /\ ~(win.i2 < 2 * win.n)
    /\ win' = [win EXCEPT !.phase = "returned"]
    /\ pc' = "done"
    /\ response' = IF win.exec = "filterCompaniesByTopicParallel"
                   THEN [status |-> "fulfilled", data |-> FilteredCompanies(win.results)]
                   ELSE response
    /\ UNCHANGED <<op, request, runs, fetchLog, oracleLog, cacheVars>>

-----------------------------------------------------------------------------
(* analyzeCompanies, step by step                                          *)
(*                                                                         *)
(* win.k is the number of companies the for loop has taken, win.units the  *)
(* calls of analyzeCompanyRelevance made so far, win.results the array the *)
(* loop pushes to and win.delays the pacing delays that have elapsed.      *)

\* faulty variant: the loop goes on without the pacing delay
AfterPushNoDelay == "loop"

\* where the loop stands after a push: at the pacing delay
AfterPush == "delay"

\* analyzeCompanies(companies, topic) is called with n companies
InvokeAnalyzeCompanies ==
    /\ pc = "idle"
    /\ \E n \in 0..MaxCompanies :
        /\ request' = [n |-> n, limit2 |-> 2]
        /\ win' = [exec |-> "analyzeCompanies", n |-> n, limit2 |-> 2, i2 |-> 0,
                   phase |-> "loop", k |-> 0, units |-> <<>>, delays |-> 0,
                   results |-> <<>>, overtaken |-> FALSE]
    /\ pc' = "analyzing"
    /\ op' = "analyzeCompanies"
    /\ UNCHANGED <<response, runs, fetchLog, oracleLog, cacheVars>>

\* for (const company of companies): the next company is taken and
\* analyzeCompanyRelevance is called for it
CallForNextCompany ==
    /\ pc = "analyzing"
    /\ win.phase = "loop"
    /\ win.k < win.n
    /\ win' = [win EXCEPT !.phase = "await", !.k = @ + 1,
                          !.units = Append(@, [idx |-> win.k + 1, window |-> win.k + 1,
                                               status |-> "calling",
                                               index2 |-> 2 * win.k,
                                               isRelated |-> Undefined,
                                               company |-> [idx |-> win.k + 1]])]
    /\ UNCHANGED <<pc, op, request, response, runs, fetchLog, oracleLog, cacheVars>>

\* the call returns a verdict, which is pushed with the company
VerdictReturned ==
    /\ pc = "analyzing"
    /\ win.phase = "await"
    /\ \E score \in {Num(0), Num(7)} :
        win' = [win EXCEPT !.phase = AfterPush,
                           !.units[win.k].status = "fulfilled",
                           !.results = Append(@, [idx |-> win.k, relevanceScore |-> score])]
    /\ UNCHANGED <<pc, op, request, response, runs, fetchLog, oracleLog, cacheVars>>

\* the call throws (buildAnalysisPrompt runs before the try block): the loop
\* is left and analyzeCompanies rejects
CallRejected ==
    /\ pc = "analyzing"
    /\ win.phase = "await"
    /\ win' = [win EXCEPT !.phase = "rejected", !.units[win.k].status = "rejected"]
    /\ pc' = "done"
    /\ response' = RejectedWith("TypeError")
    /\ UNCHANGED <<op, request, runs, fetchLog, oracleLog, cacheVars>>

\* setTimeout(resolve, 500) has fired
PacingElapsed ==
    /\ pc = "analyzing"
    /\ win.phase = "delay"
    /\ win' = [win EXCEPT !.phase = "loop", !.delays = @ + 1]
    /\ UNCHANGED <<pc, op, request, response, runs, fetchLog, oracleLog, cacheVars>>

\* the loop is over: the results are sorted and returned
AnalyzeCompaniesReturns ==
    /\ pc = "analyzing"
    /\ win.phase = "loop"
    /\ win.k = win.n
    /\ win' = [win EXCEPT !.phase = "returned"]
    /\ pc' = "done"
    /\ response' = [status |-> "fulfilled", data |-> Sort(win.results, "CmpScore")]
    /\ UNCHANGED <<op, request, runs, fetchLog, oracleLog, cacheVars>>

-----------------------------------------------------------------------------
(* filterPostsByTopic, step by step                                        *)
(*                                                                         *)
(* win.posts is the array of posts, each given by its id; win.i2 the loop  *)
(* index and win.limit2 the chunk size, in halves; win.chunk the positions *)
(* of the chunk whose oracle call is awaited; win.relevant the Set         *)
(* relevantPostIds; win.chunks the oracle calls answered so far, each with *)
(* the positions of its chunk, the path its answer took and the ids parsed *)
(* from it.                                                                *)

PostIds == {1, 2}

\* the arrays of posts: every list of 0..MaxPosts posts, ids may repeat
PostLists == UNION {[1..n -> PostIds] : n \in 0..MaxPosts}

\* the chunk sizes a caller can pass, in halves: -1, 0, 1, 2 and the default
ChunkSizes2 == {-2, 0, 2, 4, 2 * DefaultChunkSize}

\* what an oracle call for a chunk ends in: callAIFlexible throws; the
\* content is null (response.indexOf throws); a text without brackets; a
\* bracketed text that JSON.parse rejects; a JSON array of ids
ChunkAnswers ==
    {[kind |-> k, ids |-> {}] : k \in {"throws", "null", "prose", "malformed"}}
        \cup {[kind |-> "ids", ids |-> s] : s \in SUBSET PostIds}

\* the way an answer takes through the try statement: the catch block, the
\* if that finds no brackets, or the parse of an array
PathOf(answer) ==
    IF answer.kind \in {"throws", "null", "malformed"} THEN "caught"
    ELSE IF answer.kind = "prose" THEN "skipped"
    ELSE "parsed"

\* the ids the try block adds to relevantPostIds for an answer
ParsedIds(answer) == IF answer.kind = "ids" THEN answer.ids ELSE {}

\* faulty variant: the ids of the last chunk answered replace the set
AddIdsReplacing(relevant, ids) == ids

\* ids.forEach(id => relevantPostIds.add(id))
AddIds(relevant, ids) == relevant \cup ids

\* posts.filter(post => relevantPostIds.has(post.id)), as the positions of
\* the posts it keeps
RelevantPosts(posts, relevant) ==
    SelectSeq([j \in 1..Len(posts) |-> j], LAMBDA j : posts[j] \in relevant)

FilterState(posts, limit2, phase) ==
    [exec |-> "filterPostsByTopic", n |-> Len(posts), limit2 |-> limit2, i2 |-> 0,
     phase |-> phase, k |-> 0, units |-> <<>>, delays |-> 0, results |-> <<>>,
     overtaken |-> FALSE, posts |-> posts, chunk |-> <<>>, relevant |-> {},
     chunks |-> {}]

\* filterPostsByTopic(posts, topic, chunkSize) is called: without a
\* credential or without posts it returns the posts at once; a topic that is
\* not a string makes topic.substring throw before the loop
InvokeFilterPostsByTopic ==
    /\ pc = "idle"
    /\ op' = "filterPostsByTopic"
    /\ \E posts \in PostLists, limit2 \in ChunkSizes2, apiKey \in BOOLEAN,
          topic \in {"string", "number"} :
        /\ request' = [posts |-> posts, limit2 |-> limit2, apiKey |-> apiKey,
                       topic |-> topic]
        /\ IF ~apiKey \/ Len(posts) = 0
           THEN /\ pc' = "done"
                /\ win' = FilterState(posts, limit2, "returned")
                /\ response' = [status |-> "fulfilled",
                                data |-> [j \in 1..Len(posts) |-> j]]
           ELSE IF topic # "string"
           THEN /\ pc' = "done"
                /\ win' = FilterState(posts, limit2, "rejected")
                /\ response' = RejectedWith("TypeError")
           ELSE /\ pc' = "filtering"
                /\ win' = FilterState(posts, limit2, "loop")
                /\ response' = response
    /\ UNCHANGED <<runs, fetchLog, oracleLog, cacheVars>>

\* the loop condition holds: the next chunk is sliced and the oracle is
\* called for it
CallForNextChunk ==
    /\ pc = "filtering"
    /\ win.phase = "loop"
    /\ win.i2 < 2 * win.n
    /\ win' = [win EXCEPT !.phase = "await", !.k = NextCount(@),
                          !.chunk = Slice(win.n, Trunc(win.i2),
                                          Trunc(win.i2 + win.limit2))]
    /\ UNCHANGED <<pc, op, request, response, runs, fetchLog, oracleLog, cacheVars>>

\* the oracle call of the chunk ends: the try block adds the ids it parses,
\* the catch block logs what was thrown, and the loop goes on
ChunkAnswered ==
    /\ pc = "filtering"
    /\ win.phase = "await"
    /\ \E answer \in ChunkAnswers :
        win' = [win EXCEPT !.phase = "loop",
                           !.i2 = NextIndex2(@, win.limit2, win.n),
                           !.relevant = AddIds(@, ParsedIds(answer)),
                           !.chunks = @ \cup {[chunk |-> win.chunk,
                                               path |-> PathOf(answer),
                                               ids |-> ParsedIds(answer)]}]
    /\ UNCHANGED <<pc, op, request, response, runs, fetchLog, oracleLog, cacheVars>>

\* the loop condition fails: the posts are filtered and returned
FilterPostsByTopicReturns ==
    /\ pc = "filtering"
    /\ win.phase = "loop"
    /\ ~(win.i2 < 2 * win.n)
    /\ win' = [win EXCEPT !.phase = "returned"]
    /\ pc' = "done"
    /\ response' = [status |-> "fulfilled",
                    data |-> RelevantPosts(win.posts, win.relevant)]
    /\ UNCHANGED <<op, request, runs, fetchLog, oracleLog, cacheVars>>

\* a statement of the cache is issued: between operations of the cache only
CacheOpen == pc \in {"idle", "cache"} /\ stmts.n < MaxCalls

Statement(kind, key, daysOld) ==
    [n |-> stmts.n + 1, last |-> [kind |-> kind, key |-> key, daysOld |-> daysOld]]

\* WebsiteAnalysisCache.upsert
CallUpsert ==
    /\ CacheOpen
    /\ \E key \in CacheKeys, v \in AnalysisValues :
        \E table \in {Upsert(cache, key, v, now)} :
            /\ cache' = table
            /\ op' = "upsert"
            /\ request' = [key |-> key, v |-> v, at |-> now, before |-> RowOf(cache, key)]
            /\ response' = RowOf(table, key)
            /\ stmts' = Statement("upsert", key, Undefined)
            /\ history' = [history EXCEPT ![key] =
                              [completed |-> @.completed + 1, written |-> v]]
    /\ pc' = "cache"
    /\ UNCHANGED <<runs, fetchLog, oracleLog, win, now, pending>>

\* WebsiteAnalysisCache.findByDomain, no row selected: returns null
FindByDomainMiss ==
    /\ CacheOpen
    /\ \E key \in CacheKeys :
        /\ ~SelectFresh(cache, key, now).present
        /\ op' = "findByDomain"
        /\ request' = [key |-> key, at |-> now, before |-> RowOf(cache, key),
                        written |-> history[key].written]
        /\ response' = NoRow
        /\ stmts' = Statement("select", key, Undefined)
    /\ pc' = "cache"
    /\ UNCHANGED <<runs, fetchLog, oracleLog, win, cache, now, pending, history>>

\* WebsiteAnalysisCache.findByDomain, a row selected: the UPDATE is still to come
FindByDomainSelect ==
    /\ CacheOpen
    /\ stmts.n + 1 < MaxCalls
    /\ Len(pending) < MaxPending
    /\ \E key \in CacheKeys :
        /\ SelectFresh(cache, key, now).present
        /\ pending' = Append(pending, [key |-> key, at |-> now, before |-> RowOf(cache, key),
                                        written |-> history[key].written])
        /\ stmts' = Statement("select", key, Undefined)
    /\ pc' = "cache"
    /\ UNCHANGED <<op, request, response, runs, fetchLog, oracleLog, win, cache, now, history>>

\* the UPDATE of a findByDomain call, after which it returns the selected row
FindByDomainUpdate ==
    /\ pc = "cache"
    /\ \E i \in 1..Len(pending) :
        \E p \in {pending[i]} :
            /\ cache' = UpdateHit(cache, p.key, p.before, now)
            /\ pending' = SubSeq(pending, 1, i - 1) \o SubSeq(pending, i + 1, Len(pending))
            /\ op' = "findByDomain"
            /\ request' = p
            /\ response' = p.before
            /\ stmts' = Statement("update", p.key, Undefined)
            /\ history' = [history EXCEPT ![p.key].completed =
                              IF Matching(cache, p.key) # {} THEN @ + 1 ELSE @]
    /\ pc' = "cache"
    /\ UNCHANGED <<runs, fetchLog, oracleLog, win, now>>

\* WebsiteAnalysisCache.pruneOldEntries
CallPruneOldEntries ==
    /\ CacheOpen
    /\ \E daysOld \in PruneDays :
        \E table \in {PruneOldEntries(cache, daysOld, now)} :
            /\ cache' = table
            /\ op' = "pruneOldEntries"
            /\ request' = [daysOld |-> daysOld, at |-> now, before |-> cache]
            /\ response' = Num(RowCount(cache, table))
            /\ stmts' = Statement("prune", <<>>, daysOld)
            /\ history' = [k \in CacheKeys |->
                              IF Matching(table, k) # {} THEN history[k]
                              ELSE [completed |-> 0, written |-> NoValue]]
    /\ pc' = "cache"
    /\ UNCHANGED <<runs, fetchLog, oracleLog, win, now, pending>>

\* time passes on the database clock, up to the next instant
TimePasses ==
    /\ pc \in {"idle", "cache"}
    /\ now < MaxDay
    /\ now' = CHOOSE d \in Instants : d > now /\ \A e \in Instants : e > now => d <= e
    /\ pc' = "cache"
    /\ UNCHANGED <<op, request, response, runs, fetchLog, oracleLog, win,
                   cache, pending, stmts, history>>

Next ==
    \/ PostEnrich
    \/ CallEnrichLeadsInternal
    \/ PostBatchEnrich
    \/ CallScrapeWebsite
    \/ CallExtractTextForAnalysis
    \/ CallAnalyzeCompanyRelevance
    \/ PostFilterCompanies
    \/ CallCheckCompanyTopicRelation
    \/ InvokeScrapeMultiple
    \/ InvokeFilterCompanies
    \/ StartWindow
    \/ Settle
    \/ WindowSettled
    \/ DelayElapsed
    \/ ExecutorReturns
    \/ InvokeAnalyzeCompanies
    \/ CallForNextCompany
    \/ VerdictReturned
    \/ CallRejected
    \/ PacingElapsed
    \/ AnalyzeCompaniesReturns
    \/ InvokeFilterPostsByTopic
    \/ CallForNextChunk
    \/ ChunkAnswered
    \/ FilterPostsByTopicReturns
    \/ CallUpsert
    \/ FindByDomainMiss
    \/ FindByDomainSelect
    \/ FindByDomainUpdate
    \/ CallPruneOldEntries
    \/ TimePasses

Spec == Init /\ [][Next]_vars

\* a step of a windowed executor or of the chunk loop after its call: a
\* fetch or an oracle call settles, a timer fires, or the function goes on
\* from an await that is over
ExecutorStep ==
    \/ StartWindow
    \/ Settle
    \/ WindowSettled
    \/ DelayElapsed
    \/ ExecutorReturns
    \/ CallForNextChunk
    \/ ChunkAnswered
    \/ FilterPostsByTopicReturns

\* the calls followed for termination: scrapeMultiple with any of its lists,
\* the other two with lists of at most MaxLiveUnits elements
LiveInput == win.exec = "scrapeMultiple" \/ win.n <= MaxLiveUnits

\* a call of scrapeMultiple, filterCompaniesByTopicParallel or
\* filterPostsByTopic and its steps
LiveNext ==
    \/ InvokeScrapeMultiple
    \/ InvokeFilterCompanies /\ LiveInput'
    \/ InvokeFilterPostsByTopic /\ LiveInput'
    \/ StartWindow
    \/ Settle
    \/ WindowSettled
    \/ DelayElapsed
    \/ ExecutorReturns
    \/ CallForNextChunk
    \/ ChunkAnswered
    \/ FilterPostsByTopicReturns

\* these calls under the condition that every fetch and every oracle call
\* settles and that the event loop runs a continuation that is ready (every
\* step changes win)
LiveSpec == Init /\ [][LiveNext]_vars /\ WF_win(ExecutorStep)

-----------------------------------------------------------------------------
(* Properties                                                              *)

\* lead.relevanceScore || 0, as a number
Score(lead) == Or(lead.relevanceScore, Num(0)).n

\* the flags and the threshold a request body means
AnalysisEnabled(body) == Truthy(Default(body.enable_ai_analysis, Bool(TRUE)))
ScrapingEnabled(body) == Truthy(Default(body.enable_website_scraping, Bool(TRUE)))
Threshold(body) == ParseFloat(Default(body.min_relevance_score, Num(DefaultMinRelevanceScore)))

\* an /enrich request answered with the enriched leads
EnrichSucceeded == op = "enrichLeads" /\ response.status = 200

PipelineOps == {"enrichLeads", "enrichLeadsInternal", "batchEnrich"}

\* C1: the data returned by enrichLeads has at most min(len(leads), 50)
\* records, and with analysis enabled every returned record has a
\* relevanceScore >= min_relevance_score.
C1_OutputBounded ==
    EnrichSucceeded =>
        /\ Len(response.data) <= Min(Len(request.body.leads.items), 50)
        /\ AnalysisEnabled(request.body) =>
              \A j \in 1..Len(response.data) :
                  /\ response.data[j].relevanceScore.t = "number"
                  /\ Threshold(request.body).t = "number"
                  /\ response.data[j].relevanceScore.n >= Threshold(request.body).n

\* C1 happens: 51 leads are sent with analysis enabled, and 50 records come back
C1_Witness ==
    /\ EnrichSucceeded
    /\ AnalysisEnabled(request.body)
    /\ Len(request.body.leads.items) = 51
    /\ Len(response.data) = 50
    /\ Threshold(request.body) = Num(DefaultMinRelevanceScore)

\* the number of records of data made from the lead at position idx
Occurrences(data, idx) == Cardinality({j \in 1..Len(data) : data[j].idx = idx})

\* the lead at position idx as it stands before the filter step
Enriched(run, idx) == run.enriched[CHOOSE j \in 1..Len(run.enriched) : run.enriched[j].idx = idx]

\* C2: every lead that enters the graded pipeline (enrichLeads, or
\* enrichLeadsInternal for a batch) appears exactly once in the output if
\* analysis is disabled or its score >= min_relevance_score, and is absent
\* otherwise; the output holds no other record.
C2_ExactlyOneOutcome ==
    op \in PipelineOps =>
        \A r \in 1..Len(runs) :
            runs[r].completed =>
                /\ \A e \in 1..Len(runs[r].entered) :
                      LET idx == runs[r].entered[e].idx
                          retained ==
                              \/ ~runs[r].ai
                              \/ /\ ParseFloat(runs[r].minScore).t = "number"
                                 /\ Score(Enriched(runs[r], idx)) >= ParseFloat(runs[r].minScore).n
                      IN  /\ Occurrences(runs[r].enriched, idx) = 1
                          /\ Occurrences(runs[r].data, idx) = IF retained THEN 1 ELSE 0
                /\ \A j \in 1..Len(runs[r].data) :
                      \E e \in 1..Len(runs[r].entered) : runs[r].entered[e].idx = runs[r].data[j].idx

\* C2 happens: a batch run with analysis enabled retains one lead and drops another
C2_Witness ==
    /\ op = "enrichLeadsInternal"
    /\ Len(runs) = 1
    /\ runs[1].completed
    /\ runs[1].ai
    /\ Len(runs[1].entered) = 2
    /\ Len(runs[1].data) = 1
    /\ \E e \in 1..2 : Score(Enriched(runs[1], e)) = 0

\* C3: the output of enrichLeads is sorted by score, descending, and leads
\* with equal scores keep the relative order they had in the input.
C3_StableDescending ==
    EnrichSucceeded =>
        \A j \in 1..Len(response.data), k \in 1..Len(response.data) :
            j < k =>
                /\ Score(response.data[j]) >= Score(response.data[k])
                /\ Score(response.data[j]) = Score(response.data[k])
                      => response.data[j].idx < response.data[k].idx

\* C3 happens: the output has leads of equal and of different scores, and the
\* sort moved a lead ahead of one sent before it
C3_Witness ==
    /\ EnrichSucceeded
    /\ \E j \in 1..Len(response.data), k \in 1..Len(response.data) :
          /\ j < k
          /\ Score(response.data[j]) = Score(response.data[k])
    /\ \E j \in 1..Len(response.data), k \in 1..Len(response.data) :
          /\ j < k
          /\ Score(response.data[j]) > Score(response.data[k])
          /\ response.data[j].idx > response.data[k].idx

\* C4: an enrichment of a lead list, by /enrich or as one batch of
\* /batch-enrich, issues no fetch and no oracle call for a lead at position
\* 51 or later of its list.
C4_AtMostFiftyProcessed ==
    op \in PipelineOps =>
        /\ \A j \in 1..Len(fetchLog) : fetchLog[j].idx <= 50
        /\ \A j \in 1..Len(oracleLog) : oracleLog[j].idx <= 50

\* the leads of the request that come without a websiteContent of their own
NoContentSent(body) ==
    \A j \in 1..Len(body.leads.items) : body.leads.items[j].websiteContent = NoContent

IsBareDomain(url) == url.t = "string" /\ url.s # <<>> /\ ~StartsWith(url.s, HTTP)

\* the url a run of the pipeline resolves for a lead
ResolvedUrl(lead) == IF op = "enrichLeads" THEN WebsiteUrl(lead) ELSE InternalWebsiteUrl(lead)

C8_WindowedExecution ==
    win.exec # "none" =>
        /\ InFlight # {} => 2 * Cardinality(InFlight) <= win.limit2
        /\ \A j \in 1..Len(win.units), h \in 1..Len(win.units) :
              win.units[j].window < win.units[h].window => win.units[j].status # "inflight"

\* the cases of C9: no API credential; callAI was invoked and failed; the
\* oracle answered with a text that is no JSON
CredentialMissing == ~request.cfg.apiKey
CallAIReached == request.cfg.apiKey /\ ~BuildAnalysisPromptThrows(request.websiteContent)
OracleCallFailed ==
    CallAIReached /\ (request.cfg.provider \notin {"openai", "anthropic"} \/ request.oracle.kind = "error")
ResponseUnparseable ==
    /\ CallAIReached
    /\ request.cfg.provider \in {"openai", "anthropic"}
    /\ request.oracle.kind = "text"
    /\ request.oracle.syntax # "json"

\* C9: when the API credential is missing, the oracle call fails, or the
\* oracle response is not parseable JSON, analyzeCompanyRelevance does not
\* raise and returns a verdict with isRelevant null, score 0, confidence 0
\* and a diagnostic reasoning.
C9_FailuresGiveUnknown ==
    (op = "analyzeCompanyRelevance"
       /\ (CredentialMissing \/ OracleCallFailed \/ ResponseUnparseable)) =>
        /\ response.status = "fulfilled"
        /\ response.verdict.isRelevant = Null
        /\ response.verdict.score = Num(0)
        /\ response.verdict.confidence = Num(0)
        /\ response.verdict.reasoning \in {"AI analysis not configured", "Analysis failed: error",
                                           "Failed to parse AI response"}

\* C9 happens: the oracle was called and answered with prose
C9_Witness ==
    /\ op = "analyzeCompanyRelevance"
    /\ ResponseUnparseable
    /\ oracleLog # <<>>
    /\ response.verdict = FailedToParse

\* C10: every verdict the graded oracle returns has a confidence within
\* 0..100 and a score within 0..10.
C10_VerdictInRange ==
    (op = "analyzeCompanyRelevance" /\ response.status = "fulfilled") =>
        /\ response.verdict.confidence.t = "number"
        /\ response.verdict.confidence.n \in 0..100
        /\ response.verdict.score.t = "number"
        /\ response.verdict.score.n \in 0..10

\* the oracle answered a call of analyzeCompanyRelevance with a JSON object
\* that has a boolean isRelevant: the expected format
OracleAnswered == op = "analyzeCompanyRelevance" /\ response.status = "fulfilled" /\ response.called
ExpectedFormat ==
    /\ OracleAnswered
    /\ request.oracle.kind = "text"
    /\ request.oracle.syntax = "json"
    /\ request.oracle.value.k = "object"
    /\ request.oracle.value.isRelevant.t = "boolean"

\* C11: the graded verdict has isRelevant null for every oracle failure and
\* for every response not in the expected format (parseable JSON without a
\* boolean isRelevant included), and isRelevant false only when the response
\* states isRelevant false.
C11_NoSignalIsUnknown ==
    (op = "analyzeCompanyRelevance" /\ response.status = "fulfilled") =>
        /\ ~ExpectedFormat => response.verdict.isRelevant = Null
        /\ response.verdict.isRelevant = Bool(FALSE) =>
              (ExpectedFormat /\ request.oracle.value.isRelevant = Bool(FALSE))

\* the text holds "yes" in any mix of upper and lower case
ContainsYes(text) ==
    /\ text.t = "string"
    /\ \E i \in 1..(Len(text.s) - 2) :
          /\ text.s[i] \in {"y", "Y"}
          /\ text.s[i + 1] \in {"e", "E"}
          /\ text.s[i + 2] \in {"s", "S"}

\* the units of work of a /filter-companies request that settled without
\* rejecting, and what the network and the oracle did for a unit
FilterUnitsSettled ==
    IF op = "filterCompanies" /\ Len(runs) = 1
    THEN {j \in 1..Len(runs[1].units) : runs[1].units[j].status = "fulfilled"}
    ELSE {}
ScenarioOf(j) == request.scs[runs[1].units[j].company.idx]

\* the oracle call of a unit errored: the page was fetched, and the provider
\* is not supported or the request failed
OracleErrored(j) ==
    /\ runs[1].units[j].get
    /\ ScenarioOf(j).net.ok
    /\ (request.cfg.provider \notin {"openai", "anthropic"} \/ ScenarioOf(j).oracle.kind = "error")

\* C12: in the binary matcher a company's recorded isRelated is null when it
\* has no URL, when its fetch fails or when the oracle call errors, and false
\* only when the oracle answered without YES.
C12_UnknownIsNotNo ==
    \A j \in FilterUnitsSettled :
        /\ ~Truthy(CompanyWebsiteUrl(runs[1].units[j].company)) => runs[1].units[j].isRelated = Null
        /\ (runs[1].units[j].get /\ ~ScenarioOf(j).net.ok) => runs[1].units[j].isRelated = Null
        /\ OracleErrored(j) => runs[1].units[j].isRelated = Null
        /\ runs[1].units[j].isRelated = Bool(FALSE) =>
              /\ runs[1].units[j].called
              /\ ScenarioOf(j).oracle.kind = "text"
              /\ ~ContainsYes(ScenarioOf(j).oracle.text)

\* C13: filterCompaniesByTopicParallel completes without raising for every
\* company list and every value of a company's website field; a company
\* without a website it can fetch is excluded from the result, and the
\* verdicts of the other companies are those they get when processed alone.
C13_OneCompanyNeverAborts ==
    (op = "filterCompanies" /\ Len(runs) = 1) =>
        /\ runs[1].status = "fulfilled"
        /\ response.status = 200
        /\ Len(runs[1].units) = Len(request.body.companies.items)
        /\ \A j \in 1..Len(runs[1].units) :
              LET company == runs[1].units[j].company
                  alone == ProcessCompany(request.cfg, company, request.scs[company.idx].net,
                                          request.scs[company.idx].oracle)
              IN  /\ runs[1].units[j].isRelated = alone.isRelated
                  /\ (\/ ~Truthy(CompanyWebsiteUrl(company))
                      \/ CompanyWebsiteUrl(company).t # "string"
                      \/ ~request.scs[company.idx].net.ok) =>
                        \A d \in 1..Len(response.data) : response.data[d].idx # company.idx

\* data holds the companies of the units that settled with isRelated true,
\* each once, in the order of the input
IsYesSubsequence(data, units) ==
    /\ \A d \in 1..Len(data), e \in 1..Len(data) : d < e => data[d].idx < data[e].idx
    /\ {data[d].idx : d \in 1..Len(data)}
         = {units[j].company.idx : j \in {h \in 1..Len(units) : units[h].isRelated = Bool(TRUE)}}

\* C14: the result of filterCompaniesByTopicParallel is the sub-sequence of
\* the input companies whose verdict is Yes, in input order, whatever the
\* order in which the units of a window settled.
C14_ResultIsYesSubsequence ==
    /\ (op = "filterCompaniesByTopicParallel" /\ win.phase = "returned") =>
          /\ IsYesSubsequence(response.data, win.units)
          /\ \A i \in 1..win.n : Cardinality({j \in 1..Len(win.units) : win.units[j].idx = i}) = 1
    /\ (op = "filterCompanies" /\ response.status = 200) =>
          /\ IsYesSubsequence(response.data, runs[1].units)
          /\ Len(runs[1].units) = Len(request.body.companies.items)

\* C14 happens: the call returned two companies out of more, in two or more
\* windows, after a unit had settled before a unit ahead of it in its window
C14_Witness ==
    /\ op = "filterCompaniesByTopicParallel"
    /\ win.phase = "returned"
    /\ win.overtaken
    /\ win.k >= 2
    /\ Len(response.data) = 2
    /\ \E j \in 1..Len(win.units) : win.units[j].isRelated = Null
    /\ \E j \in 1..Len(win.units) : win.units[j].isRelated = Bool(FALSE)

\* C15: for a content that is a string or absent, checkCompanyTopicRelation
\* returns true if and only if the content is not empty and the oracle's text
\* response holds "YES" in any case; any other response, an empty content or
\* an oracle error gives false.
C15_YesIffResponseHoldsYes ==
    (op = "checkCompanyTopicRelation" /\ request.websiteContent.t \in {"text", "null"}) =>
        /\ response.status = "fulfilled"
        /\ response.value =
              (/\ Truthy(request.websiteContent)
               /\ ~TrimIsEmpty(request.websiteContent)
               /\ request.cfg.provider \in {"openai", "anthropic"}
               /\ request.oracle.kind = "text"
               /\ ContainsYes(request.oracle.text))
        /\ (oracleLog # <<>>) =
              (/\ Truthy(request.websiteContent)
               /\ ~TrimIsEmpty(request.websiteContent)
               /\ request.cfg.provider \in {"openai", "anthropic"})

\* C15 happens: the oracle answered a call with "yes" in lower case inside a
\* longer text, and the call returned true
C15_Witness ==
    /\ op = "checkCompanyTopicRelation"
    /\ response.value
    /\ oracleLog # <<>>
    /\ request.oracle.text.t = "string"
    /\ Len(request.oracle.text.s) > 3
    /\ ~Includes(request.oracle.text.s, YES)

\* C16: a findByDomain issued less than the freshness window after the last
\* upsert of its key returns the entry with the analysis data and the score
\* of that upsert, whatever the cache held before the upsert.
C16_UpsertThenLookupHits ==
    (/\ op = "findByDomain"
     /\ request.before.present
     /\ request.at - request.before.updated_at < FreshnessDays)
        => /\ response.present
           /\ response.analysis_data = JsonStringify(request.written.analysisData)
           /\ response.relevance_score = request.written.relevanceScore

\* C17: the table holds at most one row per (domain, topic); the entry an
\* upsert leaves at its key has the analysis data and the relevance score of
\* the upsert, and a hit count one above the one the key had, or 1 for a key
\* that had no row.
C17_UpsertReplacesAndCounts ==
    /\ \A r1 \in cache : \A r2 \in cache : r1.key = r2.key => r1 = r2
    /\ op = "upsert" =>
        /\ response.present
        /\ response.key = request.key
        /\ response.analysis_data = JsonStringify(request.v.analysisData)
        /\ response.relevance_score = request.v.relevanceScore
        /\ response.hit_count =
              IF request.before.present THEN request.before.hit_count + 1 ELSE 1
    /\ stmts.last.kind = "upsert" => RowOf(cache, stmts.last.key) = response

\* an upsert overwrote a row that had been counted twice and held another
\* value, while the other key had a row as well
C17_Witness ==
    /\ op = "upsert"
    /\ stmts.last.kind = "upsert"
    /\ request.before.present
    /\ request.before.hit_count = 2
    /\ request.before.analysis_data # JsonStringify(request.v.analysisData)
    /\ Cardinality(cache) = 2

\* C18: under every interleaving of upserts and of the two statements of
\* successful lookups, the hit count of a row is the number of upserts and
\* successful lookups completed on it since it was inserted, and the row holds
\* the analysis data and the score of the upsert that completed last.
C18_NoIncrementLost ==
    \A row \in cache :
        /\ row.hit_count = history[row.key].completed
        /\ row.analysis_data = JsonStringify(history[row.key].written.analysisData)
        /\ row.relevance_score = history[row.key].written.relevanceScore

\* a lookup selected its row, an upsert of the same key with another value
\* completed, and then the lookup's update did
C18_Witness ==
    /\ op = "findByDomain"
    /\ stmts.last.kind = "update"
    /\ response.present
    /\ \E row \in cache :
        /\ row.key = request.key
        /\ row.hit_count = response.hit_count + 2
        /\ row.analysis_data # response.analysis_data

\* what findByDomain leaves alone in a row
Kept(row) == [key |-> row.key, analysis_data |-> row.analysis_data,
              relevance_score |-> row.relevance_score, created_at |-> row.created_at]

\* C19: a statement of findByDomain removes no row and changes no row's
\* analysis data, score or creation time; its SELECT (a miss issues nothing
\* else) leaves the table unchanged, and its UPDATE changes only the hit count
\* and the last-accessed time of its own key; no statement but the DELETE of
\* pruneOldEntries removes a row, and pruneOldEntries(d) removes exactly the
\* rows created more than d days before.
C19_LookupKeepsAndPruneRemoves ==
    [][stmts'.n > stmts.n =>
        /\ stmts'.last.kind \in {"select", "update"} =>
              {Kept(row) : row \in cache'} = {Kept(row) : row \in cache}
        /\ stmts'.last.kind = "select" => cache' = cache
        /\ stmts'.last.kind = "update" =>
              \A row \in cache :
                  \/ row \in cache'
                  \/ /\ row.key = stmts'.last.key
                     /\ [row EXCEPT !.hit_count = row.hit_count + 1,
                                    !.last_accessed_at = now] \in cache'
        /\ stmts'.last.kind # "prune" =>
              {row.key : row \in cache} \subseteq {row.key : row \in cache'}
        /\ stmts'.last.kind = "prune" =>
              cache' = {row \in cache :
                           ~(now - row.created_at > DaysOld(stmts'.last.daysOld))}
    ]_vars

\* pruneOldEntries removed a row that a lookup had hit on a later day than
\* the day of its creation
C19_Witness ==
    /\ op = "pruneOldEntries"
    /\ stmts.last.kind = "prune"
    /\ response = Num(1)
    /\ \E row \in request.before :
        /\ row \notin cache
        /\ row.hit_count = 2
        /\ row.last_accessed_at > row.created_at

\* a request or batch without a lead list, with an empty one, or without topic
NoLeadsOrNoTopic(params) ==
    \/ params.leads.t # "array"
    \/ params.leads.items = <<>>
    \/ ~Truthy(params.topic)

\* no GET and no oracle call was issued for run k
NoCallsFor(k) ==
    /\ \A j \in 1..Len(fetchLog) : fetchLog[j].run # k
    /\ \A j \in 1..Len(oracleLog) : oracleLog[j].run # k

\* C20: a request to /enrich without leads or without topic is answered with
\* an error status, and a batch of /batch-enrich without leads or without
\* topic gets a result with success false; no GET and no oracle call is
\* issued for such a request or batch.
C20_InvalidRequestShortCircuits ==
    /\ (op = "enrichLeads" /\ NoLeadsOrNoTopic(request.body)) =>
          /\ response.status >= 400
          /\ fetchLog = <<>>
          /\ oracleLog = <<>>
    /\ (op = "batchEnrich" /\ request.body.batches.t = "array") =>
          \A k \in 1..Len(request.body.batches.items) :
              NoLeadsOrNoTopic(request.body.batches.items[k]) =>
                  /\ response.status >= 400 \/ ~response.data[k].success
                  /\ NoCallsFor(k)

\* C21: batchEnrich answers every list of batches with one result per batch,
\* in the order of the batches; a batch whose enrichment threw has success
\* false, every batch is run whatever became of the batches before it, and
\* successful + failed = total_batches = the number of batches.
C21_BatchFailuresIsolated ==
    (op = "batchEnrich" /\ request.body.batches.t = "array") =>
        /\ response.status = 200
        /\ Len(response.data) = Len(request.body.batches.items)
        /\ \A k \in 1..Len(response.data) :
              /\ response.data[k].batch_id = Num(k)
              /\ (request.body.batches.items[k].leads.t # "array") =>
                    ~response.data[k].success
              /\ (/\ request.thisBound
                  /\ request.body.batches.items[k].leads.t = "array"
                  /\ request.body.batches.items[k].leads.items # <<>>) =>
                    \E j \in 1..Len(runs) : runs[j].run = k
        /\ response.total_batches = Len(request.body.batches.items)
        /\ response.successful + response.failed = response.total_batches
        /\ response.successful = SuccessCount(response.data)

\* the length of the value of a labeled section of a page
ValueLength(scraped, label) ==
    CASE label = "Title" -> scraped.title
      [] label = "Description" -> scraped.description
      [] label = "Key Sections" -> scraped.headings
      [] label = "Content" -> Min(scraped.content, MaxAnalysisContent)

SectionLabels == {"Title", "Description", "Key Sections", "Content"}

\* the labels of the sections of a text
LabelsOf(text) == {text.parts[j] : j \in 1..Len(text.parts)}

\* C22: the text extractTextForAnalysis makes of a page holds a labeled
\* section exactly when the value of that section is longer than 10 characters.
C22_SectionKeptIffValueLong ==
    (op = "extractTextForAnalysis" /\ Truthy(request.scrapedData)) =>
        \A label \in SectionLabels :
            label \in LabelsOf(response.value)
                <=> ValueLength(request.scrapedData, label) > MinPartLength

\* C23: the text extractTextForAnalysis returns is at most 2000 characters long.
C23_AnalysisTextBounded ==
    op = "extractTextForAnalysis" => response.value.n <= MaxAnalysisContent

\* the leads of an /enrich request whose GET was issued and gave a page
FetchedLeads ==
    {i \in 1..Len(runs[1].entered) :
        /\ IssuesGet(WebsiteUrl(runs[1].entered[i]))
        /\ request.scs[runs[1].entered[i].idx].net.ok}

\* what scrapeWebsite resolved to for the lead at position i
PageOf(i) ==
    ScrapeWebsite(WebsiteUrl(runs[1].entered[i]), request.scs[runs[1].entered[i].idx].net).value

\* C24: after the scraping stage of enrichLeads a lead has websiteScraped
\* true exactly when some GET that gave a page was made for the url the lead
\* resolves to; its websiteContent is then the text of such a page, made from
\* that url, and a lead for whose url no GET gave a page has no content.
C24_AssociatedByUrl ==
    (EnrichSucceeded /\ ScrapingEnabled(request.body) /\ runs # <<>>) =>
        \A j \in 1..Len(runs[1].enriched) :
            LET lead == runs[1].enriched[j]
                same == {i \in FetchedLeads :
                            WebsiteUrl(runs[1].entered[i]) = WebsiteUrl(lead)}
            IN  /\ lead.websiteScraped = Bool(TRUE) <=> same # {}
                /\ same # {} =>
                      /\ lead.websiteContent.url = WebsiteUrl(lead)
                      /\ \E i \in same : lead.websiteContent = ExtractTextForAnalysis(PageOf(i))
                /\ (same = {} /\ \E i \in 1..Len(runs[1].entered) :
                                     Truthy(WebsiteUrl(runs[1].entered[i]))) =>
                      lead.websiteContent = NoText

\* two leads with the same url in one request: the GET of one failed, the
\* GET of the other gave a page, and both leads have the content of that page
C24_Witness ==
    /\ EnrichSucceeded
    /\ ScrapingEnabled(request.body)
    /\ Len(runs) = 1
    /\ \E a \in 1..Len(runs[1].enriched), b \in 1..Len(runs[1].enriched) :
          /\ a # b
          /\ WebsiteUrl(runs[1].enriched[a]) = WebsiteUrl(runs[1].enriched[b])
          /\ ~request.scs[runs[1].enriched[a].idx].net.ok
          /\ request.scs[runs[1].enriched[b].idx].net.ok
          /\ runs[1].enriched[a].websiteScraped = Bool(TRUE)
          /\ runs[1].enriched[a].websiteContent = runs[1].enriched[b].websiteContent

\* the calls of analyzeCompanyRelevance that have not returned
Calling == {j \in 1..Len(win.units) : win.units[j].status = "calling"}

\* C25: analyzeCompanies has at most one graded call in flight; the calls are
\* made in the order of the companies; the call for a company is made only
\* after the call for the company before it has returned and a pacing delay
\* has elapsed since; and what it returns holds one verdict per company.
C25_SequentialPacedCalls ==
    op = "analyzeCompanies" =>
        /\ Cardinality(Calling) <= 1
        /\ \A j \in 1..Len(win.units) :
              /\ win.units[j].idx = j
              /\ j > 1 => /\ win.units[j - 1].status = "fulfilled"
                          /\ win.delays >= j - 1
        /\ win.phase = "returned" =>
              /\ Len(response.data) = win.n
              /\ \A i \in 1..win.n :
                    Cardinality({j \in 1..Len(response.data) : response.data[j].idx = i}) = 1

\* the call for the third company is in flight, after two calls that returned
\* and two delays
C25_Witness ==
    /\ op = "analyzeCompanies"
    /\ win.n = 3
    /\ Calling = {3}
    /\ win.delays = 2
    /\ Len(win.results) = 2

\* the number of windows a list of n urls is split into by a window size
\* given in halves
WindowsOf(n, limit2) == (2 * n + limit2 - 1) \div limit2

\* C26: scrapeMultiple waits the pacing delay between windows only: window
\* w starts after w - 1 delays, a delay starts only when every fetch started
\* so far has settled, no delay comes before the first window, and when
\* scrapeMultiple returns the delays are one fewer than the windows (none for
\* an empty list).
C26_DelayBetweenWindowsOnly ==
    op = "scrapeMultiple" =>
        /\ \A j \in 1..Len(win.units) : win.delays >= win.units[j].window - 1
        /\ win.delays <= win.k
        /\ win.phase = "delay" => InFlight = {}
        /\ win.phase \in {"await", "delay"} => win.delays = win.k - 1
        /\ win.phase = "returned" =>
              /\ win.k = WindowsOf(win.n, win.limit2)
              /\ win.delays = Max(win.k - 1, 0)

\* scrapeMultiple returned after two windows and one delay
C26_Witness ==
    /\ op = "scrapeMultiple"
    /\ win.phase = "returned"
    /\ win.k = 2
    /\ win.delays = 1
    /\ Len(win.units) = win.n

\* the positions a sequence of positions holds
Positions(seq) == {seq[h] : h \in 1..Len(seq)}

\* the union of the id arrays parsed from the chunk responses
ParsedUnion == UNION {c.ids : c \in {d \in win.chunks : d.path = "parsed"}}

\* C27: with a credential, filterPostsByTopic returns exactly the posts, in
\* input order, whose id is in the union of the id arrays parsed from the
\* chunk responses; a chunk whose call fails or whose response is missing or
\* malformed adds no id, and the chunks after it are still processed
C27_UnionOfParsedIds ==
    (op = "filterPostsByTopic" /\ request.apiKey /\ request.topic = "string") =>
        /\ win.phase # "rejected"
        /\ \A c \in win.chunks : c.path # "parsed" => c.ids = {}
        /\ win.phase = "returned" =>
              /\ \A h \in 1..(Len(response.data) - 1) :
                    response.data[h] < response.data[h + 1]
              /\ \A j \in 1..win.n :
                    j \in Positions(response.data) <=> win.posts[j] \in ParsedUnion
              /\ \A j \in 1..win.n : \E c \in win.chunks : j \in Positions(c.chunk)

C27_Witness ==
    /\ op = "filterPostsByTopic" /\ win.phase = "returned"
    /\ \E c \in win.chunks, d \in win.chunks :
          /\ c.path = "caught"
          /\ d.path = "parsed"
          /\ c.chunk # <<>> /\ d.chunk # <<>>
          /\ c.chunk[1] < d.chunk[1]
    /\ Len(response.data) \in 1..(win.n - 1)

\* C28: a post that filterPostsByTopic returns had its id returned by the
\* oracle in the response to the chunk that contained the post
C28_RetainedByOwnChunk ==
    (op = "filterPostsByTopic" /\ request.apiKey /\ win.phase = "returned") =>
        \A j \in Positions(response.data) :
            \E c \in win.chunks :
                /\ j \in Positions(c.chunk)
                /\ c.path = "parsed"
                /\ win.posts[j] \in c.ids

\* C29: provided every fetch and oracle call settles, scrapeMultiple,
\* filterCompaniesByTopicParallel and filterPostsByTopic terminate, whatever
\* window or chunk size the caller passes
C29_ExecutorsTerminate ==
    (op \in {"scrapeMultiple", "filterCompaniesByTopicParallel", "filterPostsByTopic"})
        ~> (pc = "done")

\* a batch with leads and a topic whose fetches and oracle calls all succeed
GoodBatch(batch) ==
    /\ batch.t = "object"
    /\ batch.leads.t = "array"
    /\ batch.leads.items # <<>>
    /\ batch.topic = ATopic
    /\ \A i \in 1..Len(batch.scs) :
          batch.scs[i].net = APage /\ batch.scs[i].oracle = Relevant7

\* C30: through the route as registered, a batch with leads and a topic whose
\* fetches and oracle calls all succeed is reported with success true, its
\* filtered leads and its counts
C30_RoutedBatchSucceeds ==
    (/\ op = "batchEnrich"
     /\ ~request.thisBound
     /\ request.body.batches.t = "array"
     /\ response.status = 200) =>
        \A k \in 1..Len(request.body.batches.items) :
            GoodBatch(request.body.batches.items[k]) =>
                /\ response.data[k].success
                /\ response.data[k].total_input = Len(request.body.batches.items[k].leads.items)

====
